---------------------------- MODULE Spec2Model ----------------------------
(***************************************************************************)
(* Model of the epub-moe media-overlay editor: the fragment timeline held  *)
(* by the useEPUBEditor hook, the edit operations on it, the waveform      *)
(* region handlers that commit drags into it, the text-node splitter, the  *)
(* parser that loads an archive and the export that writes it back.        *)
(*                                                                         *)
(* Times are integers in centiseconds (1 = 10 ms), so REGION_EPSILON = 1,  *)
(* the 0.1 s minimum duration = 10 and the 1 s default clip = 100.         *)
(* Ids are sequences of strings: `${id}_part1` is Append(id, "part1").     *)
(***************************************************************************)
EXTENDS Integers, Sequences, FiniteSets, TLC

VARIABLES
  epubData,            \* useState<EPUBData>: [chapters, smilFiles, manifest]
  selectedChapter,     \* useState<string | null>
  selectedFragment,    \* useState<SMILFragment | null>
  now,                 \* the clock Date.now() reads, in ms
  dragStartPositions,  \* WaveformViewer: region id -> bounds at drag start
  isDragging,          \* WaveformViewer useState
  draggedRegionId,     \* WaveformViewer useState
  liveRegion,          \* the visual bounds of the region being dragged
  split,               \* the text-node splitter applied to one element
  originalZip,         \* useState<JSZip | null>: the archive export writes into
  pendingExport,       \* an exportEPUB call that is awaiting getBasePath()
  error,               \* useState<string | null>
  isLoading,           \* useState(false)
  inFlight,            \* the loadEPUB calls that have not settled
  currentTime,         \* WaveformViewer useState(0): the playback time
  suppressAutoSelectUntil,  \* WaveformViewer useRef<number>(0)
  autoSelectDeps,      \* [currentTime, fragments] of the auto-selection effect's last run
  currentAudioBlob,    \* useState<Blob | null>
  lastAudioFileBlobRef,     \* useRef<Blob | null>
  audioDeps,           \* [epubData, selectedChapter] of the audio effect's last run
  last,                \* history: the last operation, its inputs, the state before it
  nOps,                \* history: number of operations performed
  nExports             \* history: number of exports started

vars == <<epubData, selectedChapter, selectedFragment, now, dragStartPositions,
          isDragging, draggedRegionId, liveRegion, split, originalZip, pendingExport,
          error, isLoading, inFlight, currentTime, suppressAutoSelectUntil,
          autoSelectDeps, currentAudioBlob, lastAudioFileBlobRef, audioDeps,
          last, nOps, nExports>>

-----------------------------------------------------------------------------
(* Program constants *)

REGION_EPSILON == 1
MinDuration == 10
DefaultClipEnd == 100
\* region-clicked: Date.now() + 300, in milliseconds
SuppressMillis == 300

(* Bounds of the model *)

MaxOps == 2
MaxClock == 1
MaxTextLen == 4
MaxRegionEvents == 2
MaxOffsets == 2
MaxCuts == 2
MaxExports == 2
MaxExportEdits == 1
MaxLoads == 3
MaxPlaybackEvents == 3
MaxDurationMillis == 40
MaxAudioEvents == 4
MaxMissingOps == 3

Null == "null"
NoId == << >>

Max(a, b) == IF a >= b THEN a ELSE b
Abs(a) == IF a >= 0 THEN a ELSE 0 - a

-----------------------------------------------------------------------------
(* Fragment lists *)

\* fragments.findIndex(f => f.id === id), 1-based; 0 stands for -1
FindIndex(fragments, id) ==
  IF \E i \in 1..Len(fragments) : fragments[i].id = id
  THEN CHOOSE i \in 1..Len(fragments) :
         /\ fragments[i].id = id
         /\ \A j \in 1..(i - 1) : fragments[j].id # id
  ELSE 0

\* one insertion step of a stable sort by clipBegin: x goes after every element
\* whose clipBegin is not greater
InsertByClipBegin(sorted, x) ==
  LET k == Cardinality({i \in 1..Len(sorted) : sorted[i].clipBegin <= x.clipBegin})
      \* sorted is ascending, so the elements <= x are a prefix
  IN  SubSeq(sorted, 1, k) \o <<x>> \o SubSeq(sorted, k + 1, Len(sorted))

RECURSIVE SortByClipBegin(_)
\* Array.prototype.sort((a, b) => a.clipBegin - b.clipBegin): stable
SortByClipBegin(fragments) ==
  IF fragments = << >> THEN << >>
  ELSE InsertByClipBegin(SortByClipBegin(SubSeq(fragments, 1, Len(fragments) - 1)),
                         fragments[Len(fragments)])

\* .map((frag, index) => ({...frag, order: index}))
RenumberOrder(fragments) ==
  [i \in 1..Len(fragments) |-> [fragments[i] EXCEPT !.order = i - 1]]

SortAndRenumber(fragments) == RenumberOrder(SortByClipBegin(fragments))

\* { ...fragment, ...updates }: updates is a function on a subset of the fields
Merge(fragment, updates) ==
  [k \in DOMAIN fragment |-> IF k \in DOMAIN updates THEN updates[k] ELSE fragment[k]]

IsTimingUpdate(updates) ==
  "clipBegin" \in DOMAIN updates \/ "clipEnd" \in DOMAIN updates

\* the first entry of the smilFiles Map, in insertion order, whose list holds id;
\* 0 when none does (the for..of loop with break)
FindOverlay(smilFiles, id) ==
  IF \E s \in 1..Len(smilFiles) : FindIndex(smilFiles[s].fragments, id) # 0
  THEN CHOOSE s \in 1..Len(smilFiles) :
         /\ FindIndex(smilFiles[s].fragments, id) # 0
         /\ \A r \in 1..(s - 1) : FindIndex(smilFiles[r].fragments, id) = 0
  ELSE 0

\* smilFiles.get(id): the position of the entry keyed id, 0 when absent
OverlayIndex(smilFiles, overlayId) ==
  IF \E s \in 1..Len(smilFiles) : smilFiles[s].id = overlayId
  THEN CHOOSE s \in 1..Len(smilFiles) : smilFiles[s].id = overlayId
  ELSE 0

SetFragments(smilFiles, s, fragments) ==
  [smilFiles EXCEPT ![s].fragments = fragments]

-----------------------------------------------------------------------------
(* Optional values: null is the empty sequence, a value v is <<v>> *)

None == << >>
Some(v) == <<v>>

\* epubData.chapters.find(c => c.id === selectedChapter), 0 when none
ChapterIndex(chapters, chapterId) ==
  IF \E c \in 1..Len(chapters) : chapters[c].id = chapterId
  THEN CHOOSE c \in 1..Len(chapters) :
         /\ chapters[c].id = chapterId
         /\ \A b \in 1..(c - 1) : chapters[b].id # chapterId
  ELSE 0

\* the position in smilFiles of the selected chapter's overlay; 0 when no chapter
\* is selected, it has no media overlay, or the overlay is not in the map
ActiveOverlay(data, chapterId) ==
  LET c == ChapterIndex(data.chapters, chapterId)
  IN  IF c = 0 \/ data.chapters[c].mediaOverlay = Null THEN 0
      ELSE OverlayIndex(data.smilFiles, data.chapters[c].mediaOverlay)

\* getCurrentFragments()
CurrentFragments(data, chapterId) ==
  LET s == ActiveOverlay(data, chapterId)
  IN  IF s = 0 THEN << >> ELSE data.smilFiles[s].fragments

-----------------------------------------------------------------------------
(* Edit operations of the hook.  Each takes the epubData and selectedFragment *)
(* its closure captured and yields the values it hands to the setters.        *)

\* a variant of the update that, for an id no overlay holds, writes into the
\* first fragment of the first overlay
updateFragmentOrFirst(data, sel, fragmentId, updates) ==
  LET found == FindOverlay(data.smilFiles, fragmentId)
      s == IF found = 0 THEN 1 ELSE found
      fragments == data.smilFiles[s].fragments
      i == IF found = 0 THEN 1 ELSE FindIndex(fragments, fragmentId)
      updatedFragments == [fragments EXCEPT ![i] = Merge(@, updates)]
  IN  [data |-> [data EXCEPT !.smilFiles = SetFragments(@, s,
                   IF IsTimingUpdate(updates)
                   THEN SortAndRenumber(updatedFragments)
                   ELSE updatedFragments)],
       sel |-> IF sel # None /\ sel[1].id = fragmentId
               THEN Some(Merge(sel[1], updates)) ELSE sel]

updateFragment(data, sel, fragmentId, updates) ==
  LET s == FindOverlay(data.smilFiles, fragmentId)
      newSel == IF sel # None /\ sel[1].id = fragmentId
                THEN Some(Merge(sel[1], updates)) ELSE sel
  IN  IF s = 0 THEN [data |-> data, sel |-> newSel]
      ELSE LET fragments == data.smilFiles[s].fragments
               i == FindIndex(fragments, fragmentId)
               updatedFragments == [fragments EXCEPT ![i] = Merge(@, updates)]
           IN  [data |-> [data EXCEPT !.smilFiles = SetFragments(@, s,
                            IF IsTimingUpdate(updates)
                            THEN SortAndRenumber(updatedFragments)
                            ELSE updatedFragments)],
                sel |-> newSel]

\* fragments.filter(f => f.id !== fragmentId)
RECURSIVE WithoutId(_, _)
WithoutId(fragments, id) ==
  IF fragments = << >> THEN << >>
  ELSE IF Head(fragments).id = id THEN WithoutId(Tail(fragments), id)
       ELSE <<Head(fragments)>> \o WithoutId(Tail(fragments), id)

\* a variant of the deletion that extends the previous fragment over the gap
deleteFragmentClosingGap(data, sel, fragmentId) ==
  LET s == FindOverlay(data.smilFiles, fragmentId)
      newSel == IF sel # None /\ sel[1].id = fragmentId THEN None ELSE sel
  IN  IF s = 0 THEN [data |-> data, sel |-> newSel]
      ELSE LET fragments == data.smilFiles[s].fragments
               i == FindIndex(fragments, fragmentId)
               extended == IF i > 1
                           THEN [fragments EXCEPT ![i - 1].clipEnd = fragments[i].clipEnd]
                           ELSE fragments
           IN  [data |-> [data EXCEPT !.smilFiles = SetFragments(@, s,
                            SortAndRenumber(WithoutId(extended, fragmentId)))],
                sel |-> newSel]

deleteFragment(data, sel, fragmentId) ==
  LET s == FindOverlay(data.smilFiles, fragmentId)
      newSel == IF sel # None /\ sel[1].id = fragmentId THEN None ELSE sel
  IN  IF s = 0 THEN [data |-> data, sel |-> newSel]
      ELSE [data |-> [data EXCEPT !.smilFiles = SetFragments(@, s,
                        SortAndRenumber(WithoutId(data.smilFiles[s].fragments, fragmentId)))],
            sel |-> newSel]

\* a variant of the split in which the first child keeps the parent's clipEnd
SplitChildrenKeepEnd(originalFragment, splitTime) ==
  << [originalFragment EXCEPT !.id = Append(originalFragment.id, "part1")],
     [originalFragment EXCEPT !.clipBegin = splitTime,
                              !.id = Append(originalFragment.id, "part2")] >>

SplitChildrenUnsorted(originalFragment, splitTime) ==
  << [originalFragment EXCEPT !.clipEnd = splitTime,
                              !.id = Append(originalFragment.id, "part1")],
     \* order + 0.1 is overwritten by the renumbering before it is stored
     [originalFragment EXCEPT !.clipBegin = splitTime,
                              !.id = Append(originalFragment.id, "part2")] >>

splitFragment(data, fragmentId, splitTime) ==
  LET s == FindOverlay(data.smilFiles, fragmentId)
  IN  IF s = 0 THEN data
      ELSE LET fragments == data.smilFiles[s].fragments
               i == FindIndex(fragments, fragmentId)
               updatedFragments ==
                 SubSeq(fragments, 1, i - 1)
                 \o SplitChildrenUnsorted(fragments[i], splitTime)
                 \o SubSeq(fragments, i + 1, Len(fragments))
           IN  [data EXCEPT !.smilFiles = SetFragments(@, s, SortAndRenumber(updatedFragments))]

\* id: `fragment_${Date.now()}`
NewFragmentId(clock) == <<"fragment_", ToString(clock)>>

DefaultFragment(clock, afterOrder) ==
  [id |-> NewFragmentId(clock), textSrc |-> [href |-> "", frag |-> NoId],
   audioSrc |-> "", clipBegin |-> 0, clipEnd |-> DefaultClipEnd, text |-> << >>,
   order |-> afterOrder]

addFragment(data, afterId, newFragment, clock) ==
  LET s == FindOverlay(data.smilFiles, afterId)
  IN  IF s = 0 THEN data
      ELSE LET fragments == data.smilFiles[s].fragments
               i == FindIndex(fragments, afterId)
               fragment == Merge(DefaultFragment(clock, fragments[i].order), newFragment)
               updatedFragments ==
                 SubSeq(fragments, 1, i) \o <<fragment>> \o SubSeq(fragments, i + 1, Len(fragments))
           IN  [data EXCEPT !.smilFiles = SetFragments(@, s, SortAndRenumber(updatedFragments))]

\* a variant of the offset in which a fragment that ends at fromTime straddles it
OffsetFragmentEndInclusive(fragment, fromTime, offsetSeconds) ==
  IF fragment.clipBegin >= fromTime
  THEN [fragment EXCEPT
          !.clipBegin = Max(0, fragment.clipBegin + offsetSeconds),
          !.clipEnd = Max(fragment.clipBegin + offsetSeconds + MinDuration,
                          fragment.clipEnd + offsetSeconds)]
  ELSE IF fragment.clipEnd >= fromTime
  THEN [fragment EXCEPT
          !.clipEnd = Max(fragment.clipBegin + MinDuration,
                          fragment.clipEnd + offsetSeconds)]
  ELSE fragment

OffsetFragment(fragment, fromTime, offsetSeconds) ==
  IF fragment.clipBegin >= fromTime
  THEN [fragment EXCEPT
          !.clipBegin = Max(0, fragment.clipBegin + offsetSeconds),
          !.clipEnd = Max(fragment.clipBegin + offsetSeconds + MinDuration,
                          fragment.clipEnd + offsetSeconds)]
  ELSE IF fragment.clipEnd > fromTime
  THEN [fragment EXCEPT
          !.clipEnd = Max(fragment.clipBegin + MinDuration,
                          fragment.clipEnd + offsetSeconds)]
  ELSE fragment

applyTimeOffset(data, chapterId, sel, fromTime, offsetSeconds) ==
  LET s == ActiveOverlay(data, chapterId)
  IN  IF s = 0 THEN [data |-> data, sel |-> sel]
      ELSE LET fragments == data.smilFiles[s].fragments
               updatedFragments ==
                 [i \in 1..Len(fragments) |-> OffsetFragment(fragments[i], fromTime, offsetSeconds)]
               fragmentsWithCorrectOrder == SortAndRenumber(updatedFragments)
               k == IF sel = None THEN 0 ELSE FindIndex(fragmentsWithCorrectOrder, sel[1].id)
           IN  [data |-> [data EXCEPT !.smilFiles = SetFragments(@, s, fragmentsWithCorrectOrder)],
                sel |-> IF sel # None /\ sel[1].clipBegin >= fromTime /\ k # 0
                        THEN Some(fragmentsWithCorrectOrder[k]) ELSE sel]

-----------------------------------------------------------------------------
(* Waveform region handlers.  A handler runs to completion on the values its   *)
(* closure captured at the last render: h.closure is the epubData object that  *)
(* both updateFragment and fragmentsRef.current (the active overlay's array)   *)
(* refer to, h.sel the captured selectedFragment.  Every updateFragment call   *)
(* hands setEpubData a value built from h.closure, replacing the one pending.  *)

HandlerStart(data, sel) ==
  [closure |-> data, sel |-> sel, pending |-> None, newSel |-> sel, calls |-> 0,
   \* the calls of update and the bounds each cascade compared with, in order
   log |-> << >>, cascades |-> << >>]

\* onFragmentUpdateRef.current(id, updates)
CallUpdate(h, id, updates) ==
  [h EXCEPT !.pending = Some([id |-> id, updates |-> updates]),
            !.newSel = IF h.sel # None /\ h.sel[1].id = id
                       THEN Some(Merge(h.sel[1], updates)) ELSE @,
            !.calls = @ + 1,
            !.log = Append(@, [id |-> id, updates |-> updates])]

\* a variant in which the ref holds copies of the fragments: the assignment does
\* not reach the captured epubData
AssignToCopy(h, s, i, updates) == h

\* fragmentsRef.current[i].clipBegin = ...: assignment to the fragment object
\* that the captured epubData shares
AssignInPlace(h, s, i, updates) ==
  [h EXCEPT !.closure.smilFiles[s].fragments[i] = Merge(@, updates)]

\* What React commits when the handler returns: the value of the last
\* setEpubData call.  Its Map copy shares with the closure every list it did not
\* replace, and the list it replaced was copied from the shared fragment objects.
Committed(h) ==
  IF h.pending = None THEN h.closure
  ELSE updateFragment(h.closure, None, h.pending[1].id, h.pending[1].updates).data

\* update of the changed fragment, then of the next and the previous one
CommitAndCascade(h, s, idx, regionId, start, end) ==
  LET F == h.closure.smilFiles[s].fragments
      prevStart == F[idx].clipBegin
      prevEnd == F[idx].clipEnd
      bounds == [clipBegin |-> start, clipEnd |-> end]
      h0 == [h EXCEPT !.cascades = Append(@, [clipBegin |-> prevStart, clipEnd |-> prevEnd])]
      h1 == AssignInPlace(CallUpdate(h0, regionId, bounds), s, idx, bounds)
      h2 == IF /\ Abs(end - prevEnd) > REGION_EPSILON
               /\ idx < Len(F)
               /\ F[idx + 1].clipBegin # end
            THEN CallUpdate(AssignInPlace(h1, s, idx + 1, [clipBegin |-> end]),
                            F[idx + 1].id, [clipBegin |-> end])
            ELSE h1
      h3 == IF /\ Abs(start - prevStart) > REGION_EPSILON
               /\ idx > 1
               /\ F[idx - 1].clipEnd # start
            THEN CallUpdate(AssignInPlace(h2, s, idx - 1, [clipEnd |-> start]),
                            F[idx - 1].id, [clipEnd |-> start])
            ELSE h2
  IN  h3

\* isDragging && draggedRegionId === region.id, as the handler sees it: the
\* handler is created by the effect keyed on audioBlob and keeps the values of
\* that render, in which no drag is in progress
GuardSeesDrag(regionId) == FALSE

\* the first 'region-updated' listener
RegionUpdatedHandler(h, chapterId, regionId, start, end) ==
  LET s == ActiveOverlay(h.closure, chapterId)
      idx == FindIndex(CurrentFragments(h.closure, chapterId), regionId)
  IN  IF GuardSeesDrag(regionId) THEN h
      ELSE IF idx = 0
      THEN CallUpdate(h, regionId, [clipBegin |-> start, clipEnd |-> end])
      ELSE CommitAndCascade(h, s, idx, regionId, start, end)

\* the second 'region-updated' listener, for a region that was being dragged
DragEndHandler(h, chapterId, regionId, start, end) ==
  LET s == ActiveOverlay(h.closure, chapterId)
      idx == FindIndex(CurrentFragments(h.closure, chapterId), regionId)
  IN  IF idx = 0 THEN h
      ELSE CommitAndCascade(h, s, idx, regionId, start, end)

-----------------------------------------------------------------------------
(* Chapter markup.  A node is a record [tag, id, attrs, text, children]: a   *)
(* text node has tag "#text" and its characters in text; an element has its  *)
(* child nodes in children.  A chapter's content is its root element.        *)

TextNode(t) ==
  [tag |-> "#text", id |-> NoId, attrs |-> {}, text |-> t, children |-> << >>]

Element(tag, id, attrs, children) ==
  [tag |-> tag, id |-> id, attrs |-> attrs, text |-> << >>, children |-> children]

IsText(node) == node.tag = "#text"

RECURSIVE TextOfNodes(_)
\* node.textContent, over a list of sibling nodes
TextOfNodes(nodes) ==
  IF nodes = << >> THEN << >>
  ELSE (IF IsText(Head(nodes)) THEN Head(nodes).text ELSE TextOfNodes(Head(nodes).children))
       \o TextOfNodes(Tail(nodes))

TextContent(node) == TextOfNodes(<<node>>)

RECURSIVE IdsOfNodes(_)
\* the ids of the elements of a list of sibling nodes, in document order
IdsOfNodes(nodes) ==
  IF nodes = << >> THEN << >>
  ELSE LET n == Head(nodes)
       IN  (IF IsText(n) THEN << >>
            ELSE (IF n.id = NoId THEN << >> ELSE <<n.id>>) \o IdsOfNodes(n.children))
           \o IdsOfNodes(Tail(nodes))

\* doc.querySelectorAll('[id]'), as the set of ids
AllIds(root) == {IdsOfNodes(<<root>>)[i] : i \in 1..Len(IdsOfNodes(<<root>>))}

RECURSIVE FindById(_, _)
\* doc.getElementById(id): the first element in document order, None when absent
FindById(nodes, id) ==
  IF nodes = << >> THEN None
  ELSE LET n == Head(nodes)
       IN  IF IsText(n) THEN FindById(Tail(nodes), id)
           ELSE IF n.id = id THEN Some(n)
           ELSE LET inner == FindById(n.children, id)
                IN  IF inner # None THEN inner ELSE FindById(Tail(nodes), id)

RECURSIVE ReplaceById(_, _, _)
\* parent.replaceChild(span1, originalElement); parent.insertBefore(span2, ...):
\* the first element with the id, below the root, gives way to the nodes repl
ReplaceById(nodes, id, repl) ==
  IF nodes = << >> THEN << >>
  ELSE LET n == Head(nodes)
       IN  IF IsText(n) THEN <<n>> \o ReplaceById(Tail(nodes), id, repl)
           ELSE IF n.id = id THEN repl \o Tail(nodes)
           ELSE IF FindById(n.children, id) # None
           THEN <<[n EXCEPT !.children = ReplaceById(n.children, id, repl)]>> \o Tail(nodes)
           ELSE <<n>> \o ReplaceById(Tail(nodes), id, repl)

RECURSIVE ParsedNodes(_)
\* XMLSerializer then DOMParser: adjacent text nodes come back as one, empty
\* text nodes do not come back
ParsedNodes(nodes) ==
  IF nodes = << >> THEN << >>
  ELSE LET n == Head(nodes)
           rest == ParsedNodes(Tail(nodes))
       IN  IF ~IsText(n) THEN <<[n EXCEPT !.children = ParsedNodes(n.children)]>> \o rest
           ELSE IF n.text = << >> THEN rest
           ELSE IF rest # << >> /\ IsText(Head(rest))
           THEN <<TextNode(n.text \o Head(rest).text)>> \o Tail(rest)
           ELSE <<n>> \o rest

\* parser.parseFromString(new XMLSerializer().serializeToString(doc))
Reparsed(root) == ParsedNodes(<<root>>)[1]

-----------------------------------------------------------------------------
(* The text-node splitter of splitFragmentByText *)

\* a variant of text.slice(k) that starts one character late
SliceFromNext(t, k) == SubSeq(t, k + 2, Len(t))

\* a variant of the first slice that stops one character early
SliceToPrev(t, k) == SubSeq(t, 1, k - 1)

\* text.slice(0, k) and text.slice(k), for 0 <= k
SliceTo(t, k) == SubSeq(t, 1, k)
SliceFrom(t, k) == SubSeq(t, k + 1, Len(t))

\* one pass of the inner loop body, over the children of a child element that
\* spans the boundary; st = [innerCharCount, clone1, clone2, text1, text2]
InnerStep(st, child, splitAt) ==
  LET childText == TextContent(child)
      childSplitAt == splitAt - st.innerCharCount
  IN  IF st.innerCharCount + Len(childText) <= splitAt
      THEN [st EXCEPT !.clone1 = Append(@, child),
                      !.text1 = @ \o childText,
                      !.innerCharCount = @ + Len(childText)]
      ELSE IF IsText(child)
      THEN [st EXCEPT
              !.clone1 = IF childSplitAt > 0
                         THEN Append(@, TextNode(SliceTo(child.text, childSplitAt))) ELSE @,
              !.text1 = IF childSplitAt > 0 THEN @ \o SliceTo(child.text, childSplitAt) ELSE @,
              !.clone2 = Append(@, TextNode(SliceFrom(child.text, childSplitAt))),
              !.text2 = @ \o SliceFrom(child.text, childSplitAt),
              !.innerCharCount = splitAt]
      ELSE [st EXCEPT !.clone2 = Append(@, child),
                      !.text2 = @ \o childText,
                      !.innerCharCount = splitAt]

RECURSIVE InnerLoop(_, _, _)
\* for (const child of Array.from(node.childNodes))
InnerLoop(st, children, splitAt) ==
  IF children = << >> THEN st
  ELSE InnerLoop(InnerStep(st, Head(children), splitAt), Tail(children), splitAt)

\* one pass of the outer loop body; st = [charCount, nodes1, nodes2, foundSplit,
\* text1, text2, originalText]
OuterStep(st, node, splitIndex) ==
  LET text == TextContent(node)
      splitAt == splitIndex - st.charCount
      st0 == [st EXCEPT !.originalText = @ \o text]
  IN  IF st.foundSplit
      THEN [st0 EXCEPT !.nodes2 = Append(@, node), !.text2 = @ \o text]
      ELSE IF st.charCount + Len(text) <= splitIndex
      THEN [st0 EXCEPT !.nodes1 = Append(@, node),
                       !.text1 = @ \o text,
                       !.charCount = @ + Len(text)]
      ELSE IF IsText(node)
      THEN [st0 EXCEPT
              !.nodes1 = IF splitAt > 0 THEN Append(@, TextNode(SliceTo(text, splitAt))) ELSE @,
              !.text1 = IF splitAt > 0 THEN @ \o SliceTo(text, splitAt) ELSE @,
              !.nodes2 = Append(@, TextNode(SliceFrom(text, splitAt))),
              !.text2 = @ \o SliceFrom(text, splitAt),
              !.foundSplit = TRUE]
      ELSE LET inner == InnerLoop([innerCharCount |-> 0, clone1 |-> << >>, clone2 |-> << >>,
                                   text1 |-> st.text1, text2 |-> st.text2],
                                  node.children, splitAt)
               \* node.cloneNode(false): the element and its attributes, id included
               clone1 == [node EXCEPT !.children = inner.clone1]
               clone2 == [node EXCEPT !.children = inner.clone2]
           IN  [st0 EXCEPT
                  !.nodes1 = IF inner.clone1 # << >> THEN Append(@, clone1) ELSE @,
                  !.nodes2 = IF inner.clone2 # << >> THEN Append(@, clone2) ELSE @,
                  !.text1 = inner.text1,
                  !.text2 = inner.text2,
                  !.foundSplit = TRUE]

RECURSIVE OuterLoop(_, _, _)
\* for (const node of Array.from(originalElement.childNodes))
OuterLoop(st, nodes, splitIndex) ==
  IF nodes = << >> THEN st
  ELSE OuterLoop(OuterStep(st, Head(nodes), splitIndex), Tail(nodes), splitIndex)

\* the node partition of an element at a character offset
SplitNodes(originalElement, splitIndex) ==
  OuterLoop([charCount |-> 0, nodes1 |-> << >>, nodes2 |-> << >>, foundSplit |-> FALSE,
             text1 |-> << >>, text2 |-> << >>, originalText |-> << >>],
            originalElement.children, splitIndex)

\* `frag-split-${Date.now()}-1` and -2
SplitElementId(clock, n) == <<"frag-split", ToString(clock), ToString(n)>>

\* doc.createElement('span') with the id and the nodes appended
NewSpan(id, nodes) == Element("span", id, {}, nodes)

\* the document after the replacement; root is the document element, which
\* carries no id, so the referenced element always has a parent element
ReplaceWithSpans(root, textSrcId, span1, span2) ==
  [root EXCEPT !.children = ReplaceById(@, textSrcId, <<span1, span2>>)]

\* clipBegin + duration * (splitIndex / (originalText.length || 1))
SplitTime(originalFragment, splitIndex, originalLength) ==
  originalFragment.clipBegin
  + ((originalFragment.clipEnd - originalFragment.clipBegin) * splitIndex)
    \div (IF originalLength = 0 THEN 1 ELSE originalLength)

\* the split time is a whole number of centiseconds
SplitTimeOnGrid(originalFragment, splitIndex, originalLength) ==
  ((originalFragment.clipEnd - originalFragment.clipBegin) * splitIndex)
    % (IF originalLength = 0 THEN 1 ELSE originalLength) = 0

\* The fragment, its element and the document splitFragmentByText works on, or
\* None where it returns early
SplitTarget(data, chapterId, fragmentId) ==
  LET c == ChapterIndex(data.chapters, chapterId)
      s == ActiveOverlay(data, chapterId)
  IN  IF c = 0 \/ s = 0 THEN None
      ELSE LET fragments == data.smilFiles[s].fragments
               i == FindIndex(fragments, fragmentId)
           IN  IF i = 0 THEN None
               ELSE IF fragments[i].textSrc.frag = NoId THEN None
               ELSE LET doc == Reparsed(data.chapters[c].content)
                        el == FindById(<<doc>>, fragments[i].textSrc.frag)
                    IN  IF el = None THEN None
                        ELSE Some([c |-> c, s |-> s, i |-> i, doc |-> doc,
                                   originalElement |-> el[1],
                                   originalFragment |-> fragments[i]])

splitFragmentByText(data, sel, chapterId, fragmentId, splitIndex, clock) ==
  LET target == SplitTarget(data, chapterId, fragmentId)
  IN  IF target = None THEN [data |-> data, sel |-> sel]
      ELSE LET t == target[1]
               originalFragment == t.originalFragment
               parts == SplitNodes(t.originalElement, splitIndex)
               id1 == SplitElementId(clock, 1)
               id2 == SplitElementId(clock, 2)
               updatedContent ==
                 ReplaceWithSpans(t.doc, originalFragment.textSrc.frag,
                                  NewSpan(id1, parts.nodes1), NewSpan(id2, parts.nodes2))
               splitTime == SplitTime(originalFragment, splitIndex, Len(parts.originalText))
               firstFragment ==
                 [originalFragment EXCEPT !.id = Append(originalFragment.id, "part1"),
                                          !.text = parts.text1,
                                          !.textSrc.frag = id1,
                                          !.clipEnd = splitTime]
               secondFragment ==
                 [originalFragment EXCEPT !.id = Append(originalFragment.id, "part2"),
                                          !.text = parts.text2,
                                          !.textSrc.frag = id2,
                                          !.clipBegin = splitTime]
               fragments == data.smilFiles[t.s].fragments
               updatedFragments ==
                 SubSeq(fragments, 1, t.i - 1) \o <<firstFragment, secondFragment>>
                 \o SubSeq(fragments, t.i + 1, Len(fragments))
           IN  [data |-> [data EXCEPT
                            !.chapters[t.c].content = updatedContent,
                            !.smilFiles = SetFragments(@, t.s, SortAndRenumber(updatedFragments))],
                sel |-> Some(firstFragment)]

-----------------------------------------------------------------------------
(* Loading: the overlay bodies of an archive become fragment lists *)

RECURSIVE ParsePars(_, _)
\* pars.forEach((par, index) => ...): a par with both a text and an audio child
\* becomes a fragment whose order is the index of the par
ParsePars(pars, index) ==
  IF pars = << >> THEN << >>
  ELSE LET par == Head(pars)
       IN  (IF par.text # None /\ par.audio # None
            THEN << [id |-> IF par.id # NoId THEN par.id
                            \* `fragment-${index}`
                            ELSE <<"fragment-", ToString(index)>>,
                     textSrc |-> par.text[1],
                     audioSrc |-> par.audio[1].src,
                     clipBegin |-> par.audio[1].clipBegin,
                     clipEnd |-> par.audio[1].clipEnd,
                     text |-> << >>,
                     order |-> index] >>
            ELSE << >>)
           \o ParsePars(Tail(pars), index + 1)

parseSMILContent(pars) == ParsePars(pars, 0)

\* parseSMILFiles: one Map entry per overlay of the manifest, in manifest order
parseSMILFiles(overlays) ==
  [s \in 1..Len(overlays) |->
     [id |-> overlays[s].id, fragments |-> parseSMILContent(overlays[s].pars)]]

\* the media types with item.$['media-type']?.startsWith('audio/')
AudioTypes == {"audio/mpeg", "audio/mp4"}

\* the hrefs of the audio items of a manifest
AudioHrefs(items) ==
  {items[k].href : k \in {j \in 1..Len(items) : items[j].mediaType \in AudioTypes}}

\* parse(): the EPUBData of an archive; audioFiles is the key set of the Map, a
\* file's blob being known by its key
ParseArchive(archive) ==
  [chapters |-> archive.chapters, smilFiles |-> parseSMILFiles(archive.overlays),
   audioFiles |-> AudioHrefs(archive.manifest), manifest |-> archive.manifest]

\* loadEPUB's choice of chapter: the first chapter with a media overlay, else
\* the first chapter
FirstChapter(chapters) ==
  IF \E c \in 1..Len(chapters) : chapters[c].mediaOverlay # Null
  THEN chapters[CHOOSE c \in 1..Len(chapters) :
                  /\ chapters[c].mediaOverlay # Null
                  /\ \A b \in 1..(c - 1) : chapters[b].mediaOverlay = Null].id
  ELSE IF chapters # << >> THEN chapters[1].id ELSE Null

-----------------------------------------------------------------------------
(* The archive.  A JSZip is a function from entry paths to entry contents; a *)
(* path is the sequence of its segments.  An entry is a record whose kind is *)
(* "container", "opf", "xhtml", "smil" or "bytes".                           *)

ContainerPath == <<"META-INF", "container.xml">>

\* <item id=".." href=".." media-type=".." media-overlay=".."/> of the manifest
Item(id, href, mediaType, mediaOverlay) ==
  [id |-> id, href |-> href, mediaType |-> mediaType, mediaOverlay |-> mediaOverlay]

\* a clock value HH:MM:SS.ss: hours, minutes, and seconds in centiseconds
Clock(hours, minutes, secs) == [hours |-> hours, minutes |-> minutes, secs |-> secs]

\* <meta property=".." refines="#..">value</meta> on one line of the OPF
\* metadata; quote is the character that delimits the attribute values
Meta(property, quote, refines, value) ==
  [property |-> property, quote |-> quote, refines |-> refines, value |-> value]

Par(id, href, elementId, audioSrc, clipBegin, clipEnd) ==
  [id |-> id,
   text |-> Some([href |-> href, frag |-> elementId]),
   audio |-> Some([src |-> audioSrc, clipBegin |-> clipBegin, clipEnd |-> clipEnd])]

\* a par that has a text child and no audio child
ParWithoutAudio(id, href, elementId) ==
  [id |-> id, text |-> Some([href |-> href, frag |-> elementId]), audio |-> None]

XhtmlType == "application/xhtml+xml"
SmilType == "application/smil+xml"

\* zip.file(path): whether the archive has the entry
HasFile(zip, path) == path \in DOMAIN zip

\* zip.file(path, content): the entry is added or replaced
WriteFile(zip, path, content) ==
  [q \in DOMAIN zip \cup {path} |-> IF q = path THEN content ELSE zip[q]]

\* calculateBasePath(): the OPF path without its last segment
calculateBasePath(opfPath) ==
  IF Len(opfPath) > 1 THEN SubSeq(opfPath, 1, Len(opfPath) - 1) ELSE << >>

\* basePath + href, for an href of one segment
PathOf(basePath, href) == Append(basePath, href)

\* manifest.find(item => item.$.id === id), 0 when none
ManifestIndex(items, id) ==
  IF \E k \in 1..Len(items) : items[k].id = id
  THEN CHOOSE k \in 1..Len(items) :
         /\ items[k].id = id
         /\ \A j \in 1..(k - 1) : items[j].id # id
  ELSE 0

RECURSIVE parseChapters(_, _, _, _)
\* one chapter per spine itemref whose manifest item is XHTML and whose file is
\* in the archive, in spine order
parseChapters(zip, items, basePath, spine) ==
  IF spine = << >> THEN << >>
  ELSE LET idref == Head(spine)
           k == ManifestIndex(items, idref)
       IN  (IF /\ k # 0
               /\ items[k].mediaType = XhtmlType
               /\ HasFile(zip, PathOf(basePath, items[k].href))
            THEN << [id |-> idref, href |-> items[k].href,
                     content |-> zip[PathOf(basePath, items[k].href)].content,
                     mediaOverlay |-> items[k].mediaOverlay] >>
            ELSE << >>)
           \o parseChapters(zip, items, basePath, Tail(spine))

RECURSIVE Flattened(_)
\* pars = pars.concat(seq.par), over the seq elements in order
Flattened(seqs) == IF seqs = << >> THEN << >> ELSE Head(seqs) \o Flattened(Tail(seqs))

\* the pars parseSMILContent looks at: those of the top-level seq elements when
\* the body has any, else the body's own
BodyPars(body) ==
  IF "seqs" \in DOMAIN body /\ body.seqs # << >> THEN Flattened(body.seqs) ELSE body.pars

RECURSIVE parseSMILFilesIn(_, _, _)
\* one Map entry per manifest item of the SMIL type whose file is in the
\* archive, keyed by the item's id, in manifest order
parseSMILFilesIn(zip, items, basePath) ==
  IF items = << >> THEN << >>
  ELSE LET item == Head(items)
       IN  (IF item.mediaType = SmilType /\ HasFile(zip, PathOf(basePath, item.href))
            THEN << [id |-> item.id,
                     fragments |-> parseSMILContent(BodyPars(zip[PathOf(basePath, item.href)]))] >>
            ELSE << >>)
           \o parseSMILFilesIn(zip, Tail(items), basePath)

\* new EPUBParser(zip).parse(): the EPUBData, or the message of the error thrown
parse(zip) ==
  IF ~HasFile(zip, ContainerPath)
  THEN [ok |-> FALSE, message |-> "Invalid EPUB: Missing container.xml"]
  ELSE IF zip[ContainerPath].kind # "container"
  \* parseXML rejects with the error of xml2js
  THEN [ok |-> FALSE, message |-> "Non-whitespace before first tag."]
  ELSE LET opfPath == zip[ContainerPath].fullPath
           basePath == calculateBasePath(opfPath)
       IN  IF ~HasFile(zip, opfPath)
           THEN [ok |-> FALSE, message |-> "Invalid EPUB: Missing OPF file"]
           ELSE [ok |-> TRUE,
                 data |-> [chapters |-> parseChapters(zip, zip[opfPath].items, basePath,
                                                      zip[opfPath].spine),
                           smilFiles |-> parseSMILFilesIn(zip, zip[opfPath].items, basePath),
                           \* parseAudioFiles
                           audioFiles |-> {href \in AudioHrefs(zip[opfPath].items) :
                                             HasFile(zip, PathOf(basePath, href))},
                           manifest |-> zip[opfPath].items]]

-----------------------------------------------------------------------------
(* Export: the overlay bodies, the chapter markup and the OPF metadata that  *)
(* exportEPUB writes into the archive it was loaded from.                    *)

\* a % b of JavaScript: the remainder has the sign of the dividend
JSRem(a, b) == IF a >= 0 THEN a % b ELSE 0 - ((0 - a) % b)

\* formatSMILDuration(seconds), for a duration in centiseconds
formatSMILDuration(t) ==
  Clock(t \div 360000, JSRem(t, 360000) \div 6000, JSRem(t, 6000))

RECURSIVE MaxClipEnd(_)
\* Math.max(...fragments.map(f => f.clipEnd)) of a list that is not empty
MaxClipEnd(fragments) ==
  IF Len(fragments) = 1 THEN fragments[1].clipEnd
  ELSE Max(Head(fragments).clipEnd, MaxClipEnd(Tail(fragments)))

calculateTotalDuration(fragments) ==
  IF fragments = << >> THEN 0 ELSE MaxClipEnd(fragments)

\* a variant of the filter that keeps every fragment
ValidFragmentsAll(fragments, content) == fragments

\* a variant of the filter that looks for the fragment's own id in the markup
ValidFragmentsByOwnId(fragments, content) ==
  LET Keep(frag) == frag.id \in AllIds(content)
  IN  SelectSeq(fragments, Keep)

\* fragments.filter(frag => textId && allIds.has(textId)), textId being the part
\* of frag.textSrc after '#'
ValidFragments(fragments, content) ==
  LET Keep(frag) == frag.textSrc.frag # NoId /\ frag.textSrc.frag \in AllIds(content)
  IN  SelectSeq(fragments, Keep)

\* buildSMIL(fragments, textRef, seqId): one par per fragment, in list order,
\* with the fragment's id, a text child referring to textRef#<element id> and an
\* audio child with the fragment's audio source and clip times
buildSMIL(fragments, textRef, seqId) ==
  [kind |-> "smil", seqId |-> seqId,
   pars |-> [i \in 1..Len(fragments) |->
               Par(fragments[i].id, textRef, fragments[i].textSrc.frag,
                   fragments[i].audioSrc, fragments[i].clipBegin, fragments[i].clipEnd)]]

\* epubData.chapters.find(c => c.mediaOverlay === id), 0 when none
ChapterOfOverlay(chapters, overlayId) ==
  IF \E c \in 1..Len(chapters) : chapters[c].mediaOverlay = overlayId
  THEN CHOOSE c \in 1..Len(chapters) :
         /\ chapters[c].mediaOverlay = overlayId
         /\ \A b \in 1..(c - 1) : chapters[b].mediaOverlay # overlayId
  ELSE 0

RECURSIVE ExportOverlays(_, _, _, _)
\* for (const [id, fragments] of epubData.smilFiles.entries()), from entry s on;
\* st = [zip, mediaDurations]
ExportOverlays(st, data, basePath, s) ==
  IF s > Len(data.smilFiles) THEN st
  ELSE LET id == data.smilFiles[s].id
           c == ChapterOfOverlay(data.chapters, id)
           k == ManifestIndex(data.manifest, id)
           validFragments == ValidFragments(data.smilFiles[s].fragments,
                                            data.chapters[c].content)
       IN  ExportOverlays(
             IF c # 0 /\ k # 0
             THEN [zip |-> WriteFile(st.zip, PathOf(basePath, data.manifest[k].href),
                                     buildSMIL(validFragments, data.chapters[c].href,
                                               <<data.chapters[c].href, "_overlay">>)),
                   mediaDurations |-> Append(st.mediaDurations,
                                             [id |-> id,
                                              duration |-> calculateTotalDuration(validFragments)])]
             ELSE st,
             data, basePath, s + 1)

\* a variant of the chapter path that is built from the chapter's id
ChapterPathOfId(basePath, chapter) == PathOf(basePath, chapter.id)

\* basePath + chapter.href
ChapterPath(basePath, chapter) == PathOf(basePath, chapter.href)

RECURSIVE ExportChapters(_, _, _)
\* for (const chapter of epubData.chapters) newZip.file(chapterPath, chapter.content)
ExportChapters(zip, chapters, basePath) ==
  IF chapters = << >> THEN zip
  ELSE ExportChapters(WriteFile(zip, ChapterPath(basePath, Head(chapters)),
                                [kind |-> "xhtml", content |-> Head(chapters).content]),
                      Tail(chapters), basePath)

\* an entry that /<meta[^>]*property="media:duration"[^>]*>.*?<\/meta>/g matches:
\* the property attribute is written with double quotes
MatchesDurationMeta(entry) == entry.property = "media:duration" /\ entry.quote = "\""

RECURSIVE SumOfDurations(_)
SumOfDurations(mediaDurations) ==
  IF mediaDurations = << >> THEN 0
  ELSE Head(mediaDurations).duration + SumOfDurations(Tail(mediaDurations))

\* updateOPFWithDuration(opfContent, mediaDurations): the matching entries are
\* removed, then one entry per overlay and one total go before </metadata>
updateOPFWithDuration(opf, mediaDurations) ==
  LET Kept(entry) == ~MatchesDurationMeta(entry)
      mediaDurationEntries ==
        [i \in 1..Len(mediaDurations) |->
           Meta("media:duration", "\"", mediaDurations[i].id,
                formatSMILDuration(mediaDurations[i].duration))]
        \o << Meta("media:duration", "\"", Null,
                   formatSMILDuration(SumOfDurations(mediaDurations))) >>
  IN  [opf EXCEPT !.metadata = SelectSeq(@, Kept) \o mediaDurationEntries]

\* the archive after the part of exportEPUB that follows `await getBasePath()`,
\* run on the epubData the call captured
ExportWrites(zip, data) ==
  LET opfPath == zip[ContainerPath].fullPath
      basePath == calculateBasePath(opfPath)
      overlays == ExportOverlays([zip |-> zip, mediaDurations |-> << >>], data, basePath, 1)
      chapters == ExportChapters(overlays.zip, data.chapters, basePath)
  IN  IF HasFile(chapters, opfPath)
      THEN WriteFile(chapters, opfPath,
                     updateOPFWithDuration(chapters[opfPath], overlays.mediaDurations))
      ELSE chapters

\* the overlays whose fragment objects two values of epubData have in common
SameFragments(a, b) ==
  {a.smilFiles[s].id : s \in {r \in 1..Len(a.smilFiles) :
      /\ OverlayIndex(b.smilFiles, a.smilFiles[r].id) # 0
      /\ b.smilFiles[OverlayIndex(b.smilFiles, a.smilFiles[r].id)].fragments
           = a.smilFiles[r].fragments}}

\* A pending export holds the epubData object its closure captured.  The
\* fragment objects of the overlays in `shared` are still those of the live
\* model, so what a handler assigned to them in place shows in the closure; an
\* overlay whose list the edit replaced by copies is shared no longer.
AssignedInPlace(pending, written, newData) ==
  IF pending = None THEN None
  ELSE LET p == pending[1]
           Seen(overlay) ==
             IF overlay.id \in p.shared /\ OverlayIndex(written.smilFiles, overlay.id) # 0
             THEN [overlay EXCEPT !.fragments =
                     written.smilFiles[OverlayIndex(written.smilFiles, overlay.id)].fragments]
             ELSE overlay
       IN  Some([p EXCEPT
                   !.closure.smilFiles = [s \in 1..Len(p.closure.smilFiles) |->
                                            Seen(p.closure.smilFiles[s])],
                   !.shared = p.shared \cap SameFragments(written, newData)])

-----------------------------------------------------------------------------
(* Archives the model loads *)

\* <html><p><span id="e1" class="s">ab</span><span id="e2">c<em id="m1">def</em></span>
\* <span id="e3">g</span></p></html>
Markup1 ==
  Element("html", NoId, {}, <<
    Element("p", NoId, {}, <<
      Element("span", <<"e1">>, {"class"}, <<TextNode(<<"a", "b">>)>>),
      Element("span", <<"e2">>, {}, <<TextNode(<<"c">>),
                                      Element("em", <<"m1">>, {}, <<TextNode(<<"d", "e", "f">>)>>)>>),
      Element("span", <<"e3">>, {}, <<TextNode(<<"g">>)>>) >>) >>)

\* <html><span id="g1">a</span><span id="g2">bc</span></html>
Markup2 ==
  Element("html", NoId, {}, <<
    Element("span", <<"g1">>, {}, <<TextNode(<<"a">>)>>),
    Element("span", <<"g2">>, {}, <<TextNode(<<"b", "c">>)>>) >>)

\* one chapter, three contiguous fragments with ids of their own:
\* A [0 s, 5 s], B [5 s, 10 s], C [10 s, 15 s]
ArchiveContiguous ==
  [chapters |-> << [id |-> "c1", href |-> "c1.xhtml", content |-> Markup1, mediaOverlay |-> "s1"] >>,
   overlays |-> << [id |-> "s1", pars |-> <<
      Par(<<"A">>, "c1.xhtml", <<"e1">>, "a1.mp3", 0, 500),
      Par(<<"B">>, "c1.xhtml", <<"e2">>, "a1.mp3", 500, 1000),
      Par(<<"C">>, "c1.xhtml", <<"e3">>, "a1.mp3", 1000, 1500) >>] >>,
   manifest |-> << Item("c1", "c1.xhtml", XhtmlType, "s1"),
                   Item("s1", "s1.smil", SmilType, Null),
                   Item("a1", "a1.mp3", "audio/mpeg", Null),
                   Item("css", "style.css", "text/css", Null) >>,
   \* <meta property="media:duration" refines="#s1">00:00:09.00</meta>
   \* <meta property="media:duration">00:00:09.00</meta>
   metadata |-> << Meta("dc:title", "\"", Null, "book"),
                   Meta("media:duration", "\"", "s1", Clock(0, 0, 900)),
                   Meta("media:duration", "\"", Null, Clock(0, 0, 900)) >>]

\* two chapters whose pars carry no id; the second overlay has a par without
\* audio and lists its pars out of time order
ArchiveTwoOverlays ==
  [chapters |-> << [id |-> "c1", href |-> "c1.xhtml", content |-> Markup1, mediaOverlay |-> "s1"],
                   [id |-> "c2", href |-> "c2.xhtml", content |-> Markup2, mediaOverlay |-> "s2"] >>,
   overlays |-> << [id |-> "s1", pars |-> <<
                      Par(NoId, "c1.xhtml", <<"e1">>, "a1.mp3", 0, 500),
                      Par(NoId, "c1.xhtml", <<"e2">>, "a1.mp3", 500, 1000) >>],
                   [id |-> "s2", pars |-> <<
                      Par(NoId, "c2.xhtml", <<"g2">>, "a2.mp3", 500, 1000),
                      ParWithoutAudio(NoId, "c2.xhtml", <<"g1">>),
                      Par(NoId, "c2.xhtml", <<"g1">>, "a2.mp3", 0, 500) >>] >>,
   manifest |-> << Item("c1", "c1.xhtml", XhtmlType, "s1"),
                   Item("c2", "c2.xhtml", XhtmlType, "s2"),
                   Item("s1", "s1.smil", SmilType, Null),
                   Item("s2", "s2.smil", SmilType, Null),
                   Item("a1", "a1.mp3", "audio/mpeg", Null),
                   Item("a2", "a2.mp3", "audio/mpeg", Null) >>,
   \* <meta property='media:duration' refines='#s1'>00:00:10.00</meta>
   \* <meta property="media:duration">00:00:20.00</meta>
   metadata |-> << Meta("media:duration", "'", "s1", Clock(0, 0, 1000)),
                   Meta("media:duration", "\"", Null, Clock(0, 0, 2000)) >>]

Archives == {ArchiveContiguous, ArchiveTwoOverlays}

OpfPath == <<"OEBPS", "content.opf">>

RECURSIVE WithEntries(_, _, _)
\* the archive with the entries of a list of [href, entry] added
WithEntries(zip, basePath, list) ==
  IF list = << >> THEN zip
  ELSE WithEntries(WriteFile(zip, PathOf(basePath, Head(list).href), Head(list).entry),
                   basePath, Tail(list))

\* the JSZip of an archive file: mimetype, container, OPF, the chapters in spine
\* order, the overlays, and one entry per other manifest item
ZipOf(archive) ==
  LET IsOther(item) == item.mediaType \notin {XhtmlType, SmilType}
      others == SelectSeq(archive.manifest, IsOther)
      chapterFiles == [c \in 1..Len(archive.chapters) |->
                         [href |-> archive.chapters[c].href,
                          entry |-> [kind |-> "xhtml", content |-> archive.chapters[c].content]]]
      overlayFiles == [k \in 1..Len(archive.overlays) |->
                         [href |-> archive.manifest[ManifestIndex(archive.manifest,
                                                                  archive.overlays[k].id)].href,
                          entry |-> [kind |-> "smil", pars |-> archive.overlays[k].pars]]]
      otherFiles == [k \in 1..Len(others) |->
                       [href |-> others[k].href,
                        entry |-> [kind |-> "bytes", bytes |-> others[k].id]]]
      fixed == (<<"mimetype">> :> [kind |-> "bytes", bytes |-> "application/epub+zip"])
               @@ (ContainerPath :> [kind |-> "container", fullPath |-> OpfPath])
               @@ (OpfPath :> [kind |-> "opf", items |-> archive.manifest,
                               spine |-> [c \in 1..Len(archive.chapters) |-> archive.chapters[c].id],
                               metadata |-> archive.metadata])
  IN  WithEntries(fixed, calculateBasePath(OpfPath), chapterFiles \o overlayFiles \o otherFiles)

-----------------------------------------------------------------------------
(* Inputs the operator and the waveform hand to the operations *)

TimingFields == {"clipBegin", "clipEnd"}

\* Partial<SMILFragment> with any subset of the timing fields
PartialFragments == UNION {[D -> {1200}] : D \in SUBSET TimingFields}

SplitTimes == {505, 750}
OffsetFrom == {250, 500}
Offsets == {0 - 700, 200}

\* displacements of a region's start and end, from the fragment's bounds
Moves == {<<0, 200>>, <<1, 0>>, <<0 - 100, 600>>}

FragmentIds(data) ==
  UNION {{data.smilFiles[s].fragments[i].id : i \in 1..Len(data.smilFiles[s].fragments)}
         : s \in 1..Len(data.smilFiles)}

CurrentIds(data, chapterId) ==
  {CurrentFragments(data, chapterId)[i].id : i \in 1..Len(CurrentFragments(data, chapterId))}

\* the fragment fragmentsRef.current.find(f => f.id === id) yields
CurrentFragment(data, chapterId, id) ==
  CurrentFragments(data, chapterId)[FindIndex(CurrentFragments(data, chapterId), id)]

NoSplit == [op |-> "none"]
NoLast == [op |-> "load"]

-----------------------------------------------------------------------------
(* The editing session *)

Did(op, id, x, y, updates) ==
  [op |-> op, id |-> id, x |-> x, y |-> y, updates |-> updates,
   pre |-> epubData, preSel |-> selectedFragment, preChapter |-> selectedChapter,
   preZip |-> originalZip, at |-> now]

Loaded(archive) ==
  /\ epubData = ParseArchive(archive)
  /\ selectedChapter = FirstChapter(archive.chapters)
  /\ selectedFragment = None
  /\ now = 0
  /\ dragStartPositions = {}
  /\ isDragging = FALSE
  /\ draggedRegionId = None
  /\ liveRegion = None
  /\ originalZip = Some(ZipOf(archive))
  /\ pendingExport = None
  /\ error = None
  /\ isLoading = FALSE
  /\ inFlight = {}
  /\ currentTime = 0
  /\ suppressAutoSelectUntil = 0
  /\ autoSelectDeps = None
  /\ currentAudioBlob = None
  /\ lastAudioFileBlobRef = None
  /\ audioDeps = None
  /\ last = NoLast
  /\ nOps = 0
  /\ nExports = 0

Init ==
  /\ \E archive \in Archives : Loaded(archive)
  /\ split = NoSplit

NoDragChange == UNCHANGED <<dragStartPositions, isDragging, draggedRegionId, liveRegion>>

\* no load is started or settled
NoLoadChange == UNCHANGED <<isLoading, inFlight>>

\* neither the playback time nor an effect of the view is involved
NoAudioChange == UNCHANGED <<currentAudioBlob, lastAudioFileBlobRef, audioDeps>>

NoViewChange ==
  /\ UNCHANGED <<currentTime, suppressAutoSelectUntil, autoSelectDeps>>
  /\ NoAudioChange

NoArchiveChange ==
  /\ UNCHANGED <<originalZip, error, nExports>>
  /\ NoLoadChange
  /\ NoViewChange

\* neither the archive nor a pending export is touched
NoExportChange == NoArchiveChange /\ UNCHANGED pendingExport

\* an event: counted, and recorded in last
Event(did, bound) ==
  /\ nOps < bound
  /\ nOps' = nOps + 1
  /\ last' = did

\* an edit of the model by a handler; written is the epubData object the handler
\* captured, as the handler's assignments in place left it
EditBy(did, result, written, bound) ==
  /\ Event(did, bound)
  /\ epubData' = result.data
  /\ selectedFragment' = result.sel
  /\ pendingExport' = AssignedInPlace(pendingExport, written, result.data)
  /\ UNCHANGED <<selectedChapter, now, split>>
  /\ NoArchiveChange

\* an edit of the model that assigns nothing in place
Edit(did, result, bound) == EditBy(did, result, epubData, bound)

\* time passes between two events
Tick ==
  /\ now < MaxClock
  /\ now' = now + 1
  /\ UNCHANGED <<epubData, selectedChapter, selectedFragment, dragStartPositions,
                 isDragging, draggedRegionId, liveRegion, split, last, nOps,
                 originalZip, pendingExport, error, nExports>>
  /\ NoLoadChange
  /\ NoViewChange

\* ChapterList: onChapterSelect
SelectChapter ==
  \E c \in 1..Len(epubData.chapters) :
    /\ epubData.chapters[c].id # selectedChapter
    /\ selectedChapter' = epubData.chapters[c].id
    /\ Event(Did("selectChapter", NoId, 0, 0, << >>), MaxOps)
    /\ UNCHANGED <<epubData, selectedFragment, now, split>>
    /\ NoDragChange
    /\ NoExportChange

\* ContentViewer / region click: onFragmentSelect(fragment)
SelectFragment ==
  \E i \in 1..Len(CurrentFragments(epubData, selectedChapter)) :
    /\ selectedFragment' = Some(CurrentFragments(epubData, selectedChapter)[i])
    /\ selectedFragment' # selectedFragment
    /\ Event(Did("select", NoId, 0, 0, << >>), MaxOps)
    /\ UNCHANGED <<epubData, selectedChapter, now, split>>
    /\ NoDragChange
    /\ NoExportChange

\* FragmentEditor: onFragmentUpdate(id, updates)
UpdateFragment ==
  \E id \in CurrentIds(epubData, selectedChapter), updates \in PartialFragments :
    /\ Edit(Did("update", id, 0, 0, updates),
            updateFragment(epubData, selectedFragment, id, updates), MaxOps)
    /\ NoDragChange

\* FragmentEditor: onFragmentDelete(id)
DeleteFragmentIn(bound) ==
  \E id \in CurrentIds(epubData, selectedChapter) :
    /\ Edit(Did("delete", id, 0, 0, << >>),
            deleteFragment(epubData, selectedFragment, id), bound)
    /\ NoDragChange

DeleteFragment == DeleteFragmentIn(MaxOps)

\* FragmentEditor: onFragmentSplit(id, splitTime)
SplitFragmentIn(times, bound) ==
  \E id \in CurrentIds(epubData, selectedChapter), splitTime \in times :
    /\ Edit(Did("splitByTime", id, splitTime, 0, << >>),
            [data |-> splitFragment(epubData, id, splitTime), sel |-> selectedFragment],
            bound)
    /\ NoDragChange

SplitFragment == SplitFragmentIn(SplitTimes, MaxOps)

\* ContentViewer: onFragmentSplitByText(id, splitIndex); the offsets drawn are
\* those whose split time is a whole number of centiseconds
SplitFragmentByText ==
  \E id \in CurrentIds(epubData, selectedChapter), splitIndex \in 0..MaxTextLen :
    /\ LET target == SplitTarget(epubData, selectedChapter, id)
       IN  target # None =>
             SplitTimeOnGrid(target[1].originalFragment, splitIndex,
                             Len(TextContent(target[1].originalElement)))
    /\ Edit(Did("splitByText", id, splitIndex, 0, << >>),
            splitFragmentByText(epubData, selectedFragment, selectedChapter, id, splitIndex, now),
            MaxOps)
    /\ NoDragChange

\* FragmentEditor: onFragmentAdd(afterId, newFragment)
AddFragmentIn(newFragments, bound) ==
  \E afterId \in CurrentIds(epubData, selectedChapter), newFragment \in newFragments :
    /\ Edit(Did("add", afterId, 0, 0, newFragment),
            [data |-> addFragment(epubData, afterId, newFragment, now), sel |-> selectedFragment],
            bound)
    /\ NoDragChange

AddFragment == AddFragmentIn({<< >>, [clipBegin |-> 600, clipEnd |-> 700]}, MaxOps)

\* WaveformViewer offset dialog: onApplyTimeOffset(fromTime, offsetSeconds)
ApplyTimeOffset ==
  \E fromTime \in OffsetFrom, offsetSeconds \in Offsets :
    /\ Edit(Did("applyTimeOffset", NoId, fromTime, offsetSeconds, << >>),
            applyTimeOffset(epubData, selectedChapter, selectedFragment, fromTime, offsetSeconds),
            MaxOps)
    /\ NoDragChange

\* both 'region-updated' listeners, in the order they were registered
RegionUpdatedListeners(id, start, end, bound) ==
  LET h1 == RegionUpdatedHandler(HandlerStart(epubData, selectedFragment),
                                 selectedChapter, id, start, end)
      h2 == IF id \in dragStartPositions
            THEN DragEndHandler(h1, selectedChapter, id, start, end)
            ELSE h1
  IN  /\ EditBy(Did(IF id \in dragStartPositions THEN "dragEnd" ELSE "commit",
                    id, start, end, << >>)
                  @@ [log |-> h2.log, cascades |-> h2.cascades],
                [data |-> Committed(h2), sel |-> h2.newSel], h2.closure, bound)
      /\ IF id \in dragStartPositions
         THEN /\ dragStartPositions' = dragStartPositions \ {id}
              /\ isDragging' = FALSE
              /\ draggedRegionId' = None
         ELSE UNCHANGED <<dragStartPositions, isDragging, draggedRegionId>>
      /\ liveRegion' = None

\* a variant of the 'region-update' listener that hands the bounds to the model
ProposeCommits(data, sel, id, start, end) ==
  updateFragment(data, sel, id, [clipBegin |-> start, clipEnd |-> end])

\* what the 'region-update' listener does to the model: nothing
ProposeEffect(data, sel, id, start, end) == [data |-> data, sel |-> sel]

\* the bounds a region of the fragment has after a displacement
Moved(fragment, move) ==
  [start |-> fragment.clipBegin + move[1], end |-> fragment.clipEnd + move[2]]

\* a region lies on the waveform and its start is before its end
ValidRegion(r) == 0 <= r.start /\ r.start < r.end

\* 'region-updated' for a region that was not being dragged
RegionUpdatedIn(moves, bound) ==
  /\ liveRegion = None
  /\ \E id \in CurrentIds(epubData, selectedChapter), move \in moves :
       LET r == Moved(CurrentFragment(epubData, selectedChapter, id), move)
       IN  /\ ValidRegion(r)
           /\ RegionUpdatedListeners(id, r.start, r.end, bound)

RegionUpdated == RegionUpdatedIn(Moves, MaxOps)

Next ==
  \/ Tick
  \/ SelectChapter
  \/ SelectFragment
  \/ UpdateFragment
  \/ DeleteFragment
  \/ SplitFragment
  \/ SplitFragmentByText
  \/ AddFragment
  \/ ApplyTimeOffset
  \/ RegionUpdated

Spec == Init /\ [][Next]_vars

-----------------------------------------------------------------------------
(* Dragging and committing regions of a contiguous timeline *)

RegionMoves == {<<0, 1>>, <<1, 0>>, <<0, 200>>, <<0, 600>>, <<0 - 100, 0>>, <<0 - 100, 200>>}

\* 'region-update': a step of an interactive drag of one region
RegionUpdateIn(moves, bound) ==
  \E id \in CurrentIds(epubData, selectedChapter), move \in moves :
    LET r == Moved(CurrentFragment(epubData, selectedChapter, id), move)
    IN  /\ ValidRegion(r)
        /\ IF liveRegion = None THEN TRUE ELSE liveRegion[1].id = id
        /\ liveRegion' = Some([id |-> id, start |-> r.start, end |-> r.end])
        /\ liveRegion' # liveRegion
        /\ IF id \notin dragStartPositions
           THEN /\ dragStartPositions' = dragStartPositions \cup {id}
                /\ isDragging' = TRUE
                /\ draggedRegionId' = Some(id)
           ELSE UNCHANGED <<dragStartPositions, isDragging, draggedRegionId>>
        /\ Event(Did("propose", id, r.start, r.end, << >>), bound)
        /\ epubData' = ProposeEffect(epubData, selectedFragment, id, r.start, r.end).data
        /\ selectedFragment' = ProposeEffect(epubData, selectedFragment, id, r.start, r.end).sel
        /\ UNCHANGED <<selectedChapter, now, split, pendingExport>>
        /\ NoArchiveChange

RegionUpdate == RegionUpdateIn(RegionMoves, MaxRegionEvents)

\* 'region-updated' at the release of a drag: the region is where it was dragged
DragEnd ==
  /\ liveRegion # None
  /\ RegionUpdatedListeners(liveRegion[1].id, liveRegion[1].start, liveRegion[1].end,
                            MaxRegionEvents + 1)

RegionCommit == RegionUpdatedIn(RegionMoves, MaxRegionEvents)

\* 'region-clicked', while nothing is selected: auto-selection is suppressed,
\* the fragment of the region is selected and the playback time set to its start
RegionClicked ==
  \E i \in 1..Len(CurrentFragments(epubData, selectedChapter)) :
    /\ selectedFragment = None
    /\ suppressAutoSelectUntil' = now + SuppressMillis
    /\ selectedFragment' = Some(CurrentFragments(epubData, selectedChapter)[i])
    /\ currentTime' = CurrentFragments(epubData, selectedChapter)[i].clipBegin
    /\ last' = Did("select", NoId, 0, 0, << >>)
    /\ UNCHANGED <<epubData, selectedChapter, now, split, nOps, originalZip, error,
                   nExports, pendingExport, autoSelectDeps>>
    /\ NoDragChange
    /\ NoLoadChange
    /\ NoAudioChange

NextRegion ==
  \/ RegionClicked
  \/ RegionUpdate
  \/ DragEnd
  \/ RegionCommit

SpecRegion == Init /\ [][NextRegion]_vars

-----------------------------------------------------------------------------
(* Cutting fragments of a chosen chapter at a time, between additions *)

CutTimes == {250, 505, 750, 1000, 1250}

\* a chapter is chosen before the first operation
ChooseChapter ==
  \E c \in 1..Len(epubData.chapters) :
    /\ nOps = 0
    /\ epubData.chapters[c].id # selectedChapter
    /\ selectedChapter' = epubData.chapters[c].id
    /\ last' = Did("selectChapter", NoId, 0, 0, << >>)
    /\ UNCHANGED <<epubData, selectedFragment, now, split, nOps>>
    /\ NoDragChange
    /\ NoExportChange

CutFragment == SplitFragmentIn(CutTimes, MaxCuts)

InsertFragment == AddFragmentIn({[clipBegin |-> 200, clipEnd |-> 800]}, MaxCuts)

RemoveFragment == DeleteFragmentIn(MaxCuts)

NextCut ==
  \/ ChooseChapter
  \/ CutFragment
  \/ InsertFragment
  \/ RemoveFragment

SpecCut == Init /\ [][NextCut]_vars

-----------------------------------------------------------------------------
(* Shifting the timeline of the active chapter *)

ShiftFrom == {0, 250, 500, 1000}
Shifts == {0 - 700, 0 - 200, 200}

\* the offset dialog, with any time of the timeline and any shift
ShiftTimeline ==
  \E fromTime \in ShiftFrom, offsetSeconds \in Shifts :
    /\ Edit(Did("applyTimeOffset", NoId, fromTime, offsetSeconds, << >>),
            applyTimeOffset(epubData, selectedChapter, selectedFragment, fromTime, offsetSeconds),
            MaxOffsets)
    /\ NoDragChange

\* the offset dialog once more, with the same time and the opposite shift; the
\* history keeps the state before the first of the two
ShiftBack ==
  /\ last.op = "applyTimeOffset"
  /\ Edit([Did("applyTimeOffsetBack", NoId, last.x, 0 - last.y, << >>)
            EXCEPT !.pre = last.pre, !.preSel = last.preSel],
          applyTimeOffset(epubData, selectedChapter, selectedFragment, last.x, 0 - last.y),
          MaxOffsets)
  /\ NoDragChange

NextOffset ==
  \/ ChooseChapter
  \/ ShiftTimeline
  \/ ShiftBack

SpecOffset == Init /\ [][NextOffset]_vars

-----------------------------------------------------------------------------
(* The text-node splitter on its own: every element of a bounded family, at  *)
(* every character offset of its text                                        *)

LeadingNodes == {<< >>, <<TextNode(<<"a">>)>>, <<TextNode(<<"a", "b">>)>>}

\* child elements: <em/>, <em>c</em>, <em>cd</em>, <em>c<b>d</b></em>,
\* <em><b>c</b>d</em>, <em><b>cd</b></em>
InnerElements ==
  {Element("em", <<"m1">>, {"class"}, children) :
     children \in {<< >>,
                   <<TextNode(<<"c">>)>>,
                   <<TextNode(<<"c", "d">>)>>,
                   <<TextNode(<<"c">>), Element("b", NoId, {}, <<TextNode(<<"d">>)>>)>>,
                   <<Element("b", NoId, {}, <<TextNode(<<"c">>)>>), TextNode(<<"d">>)>>,
                   <<Element("b", NoId, {}, <<TextNode(<<"c", "d">>)>>)>>}}

TrailingNodes == {<< >>, <<TextNode(<<"e">>)>>}

\* the elements a text reference may point at, as the parser delivers them
SplitElements ==
  {el \in {Element("span", <<"e1">>, {"class"}, leading \o middle \o trailing) :
             leading \in LeadingNodes,
             middle \in {<< >>} \cup {<<inner>> : inner \in InnerElements},
             trailing \in TrailingNodes} :
     Len(TextContent(el)) <= MaxTextLen}

InitSplit ==
  /\ Loaded(ArchiveContiguous)
  /\ \E el \in SplitElements, splitIndex \in 0..MaxTextLen :
       /\ splitIndex <= Len(TextContent(el))
       /\ split = [op |-> "ready", originalElement |-> el, splitIndex |-> splitIndex,
                   parts |-> None]

\* the node partition loop of splitFragmentByText
SplitTextNodes ==
  /\ split.op = "ready"
  /\ split' = [split EXCEPT !.op = "done",
                            !.parts = Some(SplitNodes(split.originalElement, split.splitIndex))]
  /\ UNCHANGED <<epubData, selectedChapter, selectedFragment, now, dragStartPositions,
                 isDragging, draggedRegionId, liveRegion, last, nOps,
                 originalZip, pendingExport, error, nExports>>
  /\ NoLoadChange
  /\ NoViewChange

NextSplit == SplitTextNodes

SpecSplit == InitSplit /\ [][NextSplit]_vars

-----------------------------------------------------------------------------
(* Exporting, between HTML edits and region commits *)

\* the chapter markup without the first element that has the id
WithoutElement(content, id) == ReplaceById(<<content>>, id, << >>)[1]

\* ContentViewer: onHtmlUpdate(newHtml); the markup handed over is the current
\* chapter's without one of its elements
HtmlEdit ==
  LET c == ChapterIndex(epubData.chapters, selectedChapter)
  IN  /\ c # 0
      /\ \E id \in AllIds(epubData.chapters[c].content) \ {NoId} :
           /\ FindById(epubData.chapters[c].content.children, id) # None
           /\ Event(Did("htmlEdit", id, 0, 0, << >>), MaxExportEdits)
           /\ epubData' = [epubData EXCEPT !.chapters[c].content = WithoutElement(@, id)]
      /\ UNCHANGED <<selectedChapter, selectedFragment, now, split>>
      /\ NoDragChange
      /\ NoExportChange

ExportMoves == {<<0, 200>>, <<100, 0>>}

\* 'region-updated', also while an export is pending
RegionCommitAround == RegionUpdatedIn(ExportMoves, MaxExportEdits)

\* exportEPUB() up to `await parser.getBasePath()`: the call holds the epubData
\* and the archive of the render it was made in
ExportStart ==
  /\ originalZip # None
  /\ pendingExport = None
  /\ nExports < MaxExports
  /\ parse(originalZip[1]).ok
  /\ pendingExport' = Some([closure |-> epubData, invoked |-> epubData,
                            shared |-> {epubData.smilFiles[s].id : s \in 1..Len(epubData.smilFiles)}])
  /\ nExports' = nExports + 1
  /\ last' = Did("exportStart", NoId, 0, 0, << >>)
  /\ UNCHANGED <<epubData, selectedChapter, selectedFragment, now, split, originalZip,
                 error, nOps>>
  /\ NoDragChange
  /\ NoLoadChange
  /\ NoViewChange

\* exportEPUB() from the return of getBasePath() on: the loops over the overlays
\* and the chapters run without interruption, then the OPF is rewritten
ExportFinish ==
  /\ pendingExport # None
  /\ originalZip' = Some(ExportWrites(originalZip[1], pendingExport[1].closure))
  /\ pendingExport' = None
  /\ last' = [op |-> "exportFinish", pre |-> epubData, preZip |-> originalZip,
              invoked |-> pendingExport[1].invoked, closure |-> pendingExport[1].closure]
  /\ UNCHANGED <<epubData, selectedChapter, selectedFragment, now, split, error, nOps,
                 nExports>>
  /\ NoDragChange
  /\ NoLoadChange
  /\ NoViewChange

NextExport ==
  \/ ChooseChapter
  \/ HtmlEdit
  \/ RegionCommitAround
  \/ ExportStart
  \/ ExportFinish

SpecExport == Init /\ [][NextExport]_vars

-----------------------------------------------------------------------------
(* Loading another file into a session *)

\* a file JSZip.loadAsync reads
ZipFile(zip) == [readable |-> TRUE, zip |-> zip]

\* a file that is not a zip archive: JSZip.loadAsync rejects
NotAZip == [readable |-> FALSE]

\* the entries of an archive other than one
WithoutFile(zip, path) == [q \in DOMAIN zip \ {path} |-> zip[q]]

GroupedOverlayPath == PathOf(calculateBasePath(OpfPath), "s1.smil")

\* an overlay body of two seq groups and a par of its own; the second par of the
\* first group has no audio
GroupedOverlay ==
  [kind |-> "smil",
   seqs |-> << << Par(<<"A">>, "c1.xhtml", <<"e1">>, "a1.mp3", 0, 500),
                  ParWithoutAudio(<<"N">>, "c1.xhtml", <<"e2">>) >>,
               << Par(<<"C">>, "c1.xhtml", <<"e3">>, "a1.mp3", 1000, 1500) >> >>,
   pars |-> << Par(<<"B">>, "c1.xhtml", <<"e2">>, "a1.mp3", 500, 1000) >>]

Files ==
  {ZipFile(ZipOf(archive)) : archive \in Archives}
  \cup {NotAZip,
        ZipFile(WithoutFile(ZipOf(ArchiveContiguous), ContainerPath)),
        ZipFile(WithoutFile(ZipOf(ArchiveContiguous), OpfPath)),
        ZipFile(WriteFile(ZipOf(ArchiveContiguous), ContainerPath,
                          [kind |-> "bytes", bytes |-> "not xml"])),
        ZipFile(WriteFile(ZipOf(ArchiveContiguous), GroupedOverlayPath, GroupedOverlay))}

\* loadEPUB's choice of chapter: the one localStorage remembers, when the new
\* book has a chapter of that id
RestoredChapter(chapters, lastSelected) ==
  IF lastSelected # Null /\ ChapterIndex(chapters, lastSelected) # 0
  THEN lastSelected
  ELSE FirstChapter(chapters)

\* loadEPUB(file)
LoadEPUB ==
  \E file \in Files :
    LET loaded == file.readable
        parsed == parse(file.zip)
    IN  \* App renders nothing but the error screen once an error is set
        /\ error = None
        /\ Event(Did(IF loaded /\ parsed.ok THEN "loaded" ELSE "loadFailed",
                     NoId, 0, 0, << >>), MaxLoads)
        /\ originalZip' = IF loaded THEN Some(file.zip) ELSE originalZip
        /\ IF loaded /\ parsed.ok
           THEN /\ epubData' = parsed.data
                /\ selectedChapter' =
                     IF RestoredChapter(parsed.data.chapters, selectedChapter) # Null
                     THEN RestoredChapter(parsed.data.chapters, selectedChapter)
                     ELSE selectedChapter
                /\ error' = None
           ELSE /\ error' = Some(IF loaded THEN parsed.message
                                 ELSE "Can't find end of central directory")
                /\ UNCHANGED <<epubData, selectedChapter>>
        /\ UNCHANGED <<selectedFragment, now, split, pendingExport, nExports>>
        /\ NoDragChange
        \* setIsLoading(true) at the call, setIsLoading(false) in the finally block
        /\ NoLoadChange
        /\ NoViewChange

\* ChapterList: onChapterSelect, on the editor screen
SwitchChapter == error = None /\ SelectChapter

\* FragmentEditor: onFragmentDelete(id), on the editor screen
DeleteBetweenLoads == error = None /\ DeleteFragmentIn(MaxLoads)

NextLoad ==
  \/ SwitchChapter
  \/ DeleteBetweenLoads
  \/ LoadEPUB

SpecLoad == Init /\ [][NextLoad]_vars

-----------------------------------------------------------------------------
(* Properties *)

Sorted(fragments) ==
  \A i \in 1..(Len(fragments) - 1) : fragments[i].clipBegin <= fragments[i + 1].clipBegin

OrderIsIndex(fragments) ==
  \A i \in 1..Len(fragments) : fragments[i].order = i - 1

UniqueIds(fragments) ==
  \A i, j \in 1..Len(fragments) : fragments[i].id = fragments[j].id => i = j

\* the fragment of the list with the id
ById(fragments, id) == fragments[FindIndex(fragments, id)]

Times(fragments) ==
  [i \in 1..Len(fragments) |-> <<fragments[i].clipBegin, fragments[i].clipEnd>>]

AllMinDuration(data) ==
  \A s \in 1..Len(data.smilFiles) :
    \A i \in 1..Len(data.smilFiles[s].fragments) :
      data.smilFiles[s].fragments[i].clipEnd - data.smilFiles[s].fragments[i].clipBegin
        >= MinDuration

EditOps == {"update", "commit", "dragEnd", "delete", "splitByTime", "splitByText",
            "add", "applyTimeOffset"}

\* the character offset of the last splitByText lies within the text of the
\* element the fragment refers to
OffsetInText ==
  LET target == SplitTarget(last.pre, last.preChapter, last.id)
  IN  /\ target # None
      /\ last.x <= Len(TextContent(target[1].originalElement))

\* C1: after a committed edit of a freshly parsed package, every overlay's
\* fragment list is sorted ascending by clipBegin and the fragment at index i
\* has order i.
C1_SortedAndNumbered ==
  last.op \in EditOps =>
    \A s \in 1..Len(epubData.smilFiles) :
      /\ Sorted(epubData.smilFiles[s].fragments)
      /\ OrderIsIndex(epubData.smilFiles[s].fragments)

\* C2: if every fragment lasts at least 0.1 s before a committed mutation
\* (update, region commit with cascade, splitByTime, splitByText with an offset
\* within the text, add, applyTimeOffset), every fragment does after it.
C2_MinDurationPreserved ==
  (/\ last.op \in EditOps \ {"delete"}
   /\ last.op = "splitByText" => OffsetInText
   /\ AllMinDuration(last.pre))
  => AllMinDuration(epubData)

\* the last event committed a region of a fragment of the active overlay
RegionCommitted ==
  /\ last.op \in {"commit", "dragEnd"}
  /\ FindIndex(CurrentFragments(last.pre, last.preChapter), last.id) # 0

\* C3: a region commit(id, start, end) on fragment i stores [start, end] for it;
\* if end differs from the previous clipEnd by more than the tolerance and
\* fragment i+1 exists, that fragment's clipBegin is end; if start differs from
\* the previous clipBegin by more than the tolerance and fragment i-1 exists,
\* that fragment's clipEnd is start.  All these writes are in the model together
\* once the commit has finished.
C3_CommitAndCascade ==
  RegionCommitted =>
    LET F == CurrentFragments(last.pre, last.preChapter)
        G == CurrentFragments(epubData, selectedChapter)
        i == FindIndex(F, last.id)
    IN  UniqueIds(F) =>
          /\ ById(G, last.id).clipBegin = last.x
          /\ ById(G, last.id).clipEnd = last.y
          /\ (Abs(last.y - F[i].clipEnd) > REGION_EPSILON /\ i < Len(F))
               => ById(G, F[i + 1].id).clipBegin = last.y
          /\ (Abs(last.x - F[i].clipBegin) > REGION_EPSILON /\ i > 1)
               => ById(G, F[i - 1].id).clipEnd = last.x

\* A[0,5], B[5,10], C[10,15] and commit(B, 5, 12) give A[0,5], B[5,12], C[12,15]
C3_Witness ==
  /\ RegionCommitted
  /\ last.id = <<"B">> /\ last.x = 500 /\ last.y = 1200
  /\ Times(CurrentFragments(last.pre, last.preChapter))
       = << <<0, 500>>, <<500, 1000>>, <<1000, 1500>> >>
  /\ Times(CurrentFragments(epubData, selectedChapter))
       = << <<0, 500>>, <<500, 1200>>, <<1200, 1500>> >>

\* C4: from a contiguous timeline, after any sequence of region commits, the
\* gap or overlap between adjacent fragments of the sorted list never exceeds
\* the tolerance.
C4_StaysContiguous ==
  LET G == CurrentFragments(epubData, selectedChapter)
  IN  \A i \in 1..(Len(G) - 1) :
        Abs(G[i + 1].clipBegin - G[i].clipEnd) <= REGION_EPSILON

\* C5: a 'region-update' event of a drag in progress changes neither the
\* fragment lists, nor the chapter markup, nor the selection.
C5_ProposeLeavesModel ==
  last.op = "propose" =>
    /\ epubData = last.pre
    /\ selectedFragment = last.preSel
    /\ selectedChapter = last.preChapter

\* a second 'region-update' of a drag of a selected fragment
C5_Witness ==
  /\ last.op = "propose"
  /\ nOps >= 2
  /\ isDragging
  /\ selectedFragment # None
  /\ selectedFragment[1].id = last.id

\* the last event split, at a time strictly inside it, a fragment whose id
\* occurs once in the list that holds it
SplitInside ==
  /\ last.op = "splitByTime"
  /\ FindOverlay(last.pre.smilFiles, last.id) # 0
  /\ LET F == last.pre.smilFiles[FindOverlay(last.pre.smilFiles, last.id)].fragments
     IN  /\ UniqueIds(F)
         /\ ById(F, last.id).clipBegin < last.x
         /\ last.x < ById(F, last.id).clipEnd

\* C6: splitByTime(id, t) with clipBegin < t < clipEnd replaces the fragment by
\* exactly two children with the parent's text and audio references,
\* [clipBegin, t] and [t, clipEnd]; the parent id is no longer in the list, the
\* list grows by one, and the times of every other fragment are unchanged.
C6_SplitByTime ==
  SplitInside =>
    LET s == FindOverlay(last.pre.smilFiles, last.id)
        F == last.pre.smilFiles[s].fragments
        G == epubData.smilFiles[s].fragments
        parent == ById(F, last.id)
        id1 == Append(last.id, "part1")
        id2 == Append(last.id, "part2")
    IN  /\ Len(G) = Len(F) + 1
        /\ FindIndex(G, last.id) = 0
        /\ {G[k].id : k \in 1..Len(G)} \ {F[j].id : j \in 1..Len(F)} = {id1, id2}
        /\ Cardinality({k \in 1..Len(G) : G[k].id \in {id1, id2}}) = 2
        /\ ById(G, id1).clipBegin = parent.clipBegin
        /\ ById(G, id1).clipEnd = last.x
        /\ ById(G, id2).clipBegin = last.x
        /\ ById(G, id2).clipEnd = parent.clipEnd
        /\ \A id \in {id1, id2} :
             /\ ById(G, id).textSrc = parent.textSrc
             /\ ById(G, id).audioSrc = parent.audioSrc
        /\ \A j \in 1..Len(F) :
             F[j].id # last.id =>
               /\ FindIndex(G, F[j].id) # 0
               /\ ById(G, F[j].id).clipBegin = F[j].clipBegin
               /\ ById(G, F[j].id).clipEnd = F[j].clipEnd

\* B[5,10] of A, B, C split at 7.5 s
C6_Witness ==
  /\ SplitInside
  /\ last.id = <<"B">> /\ last.x = 750
  /\ Times(CurrentFragments(epubData, selectedChapter))
       = << <<0, 500>>, <<500, 750>>, <<750, 1000>>, <<1000, 1500>> >>

\* the text of the result of the splitter, part by part
PartTexts ==
  [text1 |-> TextOfNodes(split.parts[1].nodes1), text2 |-> TextOfNodes(split.parts[1].nodes2)]

\* C7: for every element and every character offset in [0, length], the texts
\* of the two parts of the text-node split concatenate to the text of the
\* element; offset 0 leaves the first part without text and offset = length
\* the second.
C7_SplitConcatenates ==
  split.op = "done" =>
    LET original == TextContent(split.originalElement)
    IN  /\ PartTexts.text1 \o PartTexts.text2 = original
        /\ split.parts[1].text1 \o split.parts[1].text2 = original
        /\ split.parts[1].originalText = original
        /\ split.splitIndex = 0 => PartTexts.text1 = << >>
        /\ split.splitIndex = Len(original) => PartTexts.text2 = << >>

\* ab<em>c<b>d</b></em> split after its third character, inside the child
\* element
C7_Witness ==
  /\ split.op = "done"
  /\ TextContent(split.originalElement) = <<"a", "b", "c", "d">>
  /\ split.splitIndex = 3
  /\ PartTexts.text1 = <<"a", "b", "c">>
  /\ PartTexts.text2 = <<"d">>
  /\ \E k \in 1..Len(split.parts[1].nodes1) : ~IsText(split.parts[1].nodes1[k])

\* C8: splitByText(id, offset) with 0 <= offset <= L replaces the fragment by
\* child1 = [clipBegin, splitTime] and child2 = [splitTime, clipEnd], with
\* splitTime = clipBegin + (clipEnd - clipBegin) * offset / L; child1 refers to
\* the first new element and child2 to the second, both keep the audio
\* reference, both text references resolve in the updated markup and the id
\* of the original element no longer does.
C8_SplitByText ==
  (last.op = "splitByText" /\ OffsetInText) =>
    LET t == SplitTarget(last.pre, last.preChapter, last.id)[1]
        parent == t.originalFragment
        L == IF Len(TextContent(t.originalElement)) = 0 THEN 1
             ELSE Len(TextContent(t.originalElement))
        G == epubData.smilFiles[t.s].fragments
        doc == epubData.chapters[t.c].content
        id1 == Append(parent.id, "part1")
        id2 == Append(parent.id, "part2")
    IN  UniqueIds(last.pre.smilFiles[t.s].fragments) =>
          /\ FindIndex(G, parent.id) = 0
          /\ FindIndex(G, id1) # 0
          /\ FindIndex(G, id2) # 0
          /\ ById(G, id1).clipBegin = parent.clipBegin
          /\ ById(G, id1).clipEnd * L = parent.clipBegin * L
                                        + (parent.clipEnd - parent.clipBegin) * last.x
          /\ ById(G, id2).clipBegin = ById(G, id1).clipEnd
          /\ ById(G, id2).clipEnd = parent.clipEnd
          /\ ById(G, id1).audioSrc = parent.audioSrc
          /\ ById(G, id2).audioSrc = parent.audioSrc
          /\ ById(G, id1).textSrc.frag # ById(G, id2).textSrc.frag
          /\ FindById(<<doc>>, ById(G, id1).textSrc.frag) # None
          /\ FindById(<<doc>>, ById(G, id2).textSrc.frag) # None
          /\ FindById(<<doc>>, parent.textSrc.frag) = None

\* the times of the fragments the last applyTimeOffset worked on were those of
\* well-formed fragments with ids of their own
OffsetApplied ==
  /\ last.op = "applyTimeOffset"
  /\ ActiveOverlay(last.pre, last.preChapter) # 0
  /\ UniqueIds(CurrentFragments(last.pre, last.preChapter))

\* C9: applyTimeOffset(fromTime, d), where no clamp applies, shifts both bounds
\* of a fragment with clipBegin >= fromTime by d, shifts only the clipEnd of a
\* fragment with clipBegin < fromTime < clipEnd, and leaves a fragment with
\* clipEnd <= fromTime unchanged.
C9_OffsetMapping ==
  OffsetApplied =>
    LET F == CurrentFragments(last.pre, last.preChapter)
        G == CurrentFragments(epubData, selectedChapter)
        fromTime == last.x
        d == last.y
    IN  \A j \in 1..Len(F) :
          LET f == F[j]
              g == ById(G, f.id)
          IN  f.clipBegin < f.clipEnd =>
                /\ (/\ f.clipBegin >= fromTime
                    /\ f.clipBegin + d >= 0
                    /\ f.clipEnd - f.clipBegin >= MinDuration)
                     => g.clipBegin = f.clipBegin + d /\ g.clipEnd = f.clipEnd + d
                /\ (/\ f.clipBegin < fromTime
                    /\ fromTime < f.clipEnd
                    /\ f.clipEnd + d >= f.clipBegin + MinDuration)
                     => g.clipBegin = f.clipBegin /\ g.clipEnd = f.clipEnd + d
                /\ f.clipEnd <= fromTime
                     => g.clipBegin = f.clipBegin /\ g.clipEnd = f.clipEnd

\* [{0,5},{5,10},{10,15}] and applyTimeOffset(5, +2) give [{0,5},{7,12},{12,17}]
C9_Witness ==
  /\ OffsetApplied
  /\ last.x = 500 /\ last.y = 200
  /\ Times(CurrentFragments(last.pre, last.preChapter))
       = << <<0, 500>>, <<500, 1000>>, <<1000, 1500>> >>
  /\ Times(CurrentFragments(epubData, selectedChapter))
       = << <<0, 500>>, <<700, 1200>>, <<1200, 1700>> >>

\* C10: after applyTimeOffset(fromTime, d), for any d, every fragment the
\* operation modified has clipBegin >= 0 and lasts at least 0.1 s.
C10_OffsetClamped ==
  OffsetApplied =>
    LET F == CurrentFragments(last.pre, last.preChapter)
        G == CurrentFragments(epubData, selectedChapter)
    IN  \A j \in 1..Len(F) :
          (F[j].clipBegin >= last.x \/ F[j].clipEnd > last.x) =>
            /\ ById(G, F[j].id).clipBegin >= 0
            /\ ById(G, F[j].id).clipEnd - ById(G, F[j].id).clipBegin >= MinDuration

\* the last two events were applyTimeOffset(t, d) and applyTimeOffset(t, -d) on
\* a list of fragments with ids of their own
OffsetAndBack ==
  /\ last.op = "applyTimeOffsetBack"
  /\ ActiveOverlay(last.pre, last.preChapter) # 0
  /\ UniqueIds(CurrentFragments(last.pre, last.preChapter))

\* C11: applyTimeOffset(t, d) followed by applyTimeOffset(t, -d) restores the
\* clipBegin and clipEnd of every fragment whose original clipBegin >= t.
C11_OffsetRoundTrip ==
  OffsetAndBack =>
    LET F == CurrentFragments(last.pre, last.preChapter)
        G == CurrentFragments(epubData, selectedChapter)
    IN  \A j \in 1..Len(F) :
          F[j].clipBegin >= last.x =>
            /\ ById(G, F[j].id).clipBegin = F[j].clipBegin
            /\ ById(G, F[j].id).clipEnd = F[j].clipEnd

\* the last event updated a fragment that was found
Updated ==
  /\ last.op = "update"
  /\ FindOverlay(last.pre.smilFiles, last.id) # 0

\* C12: update(id, {clipBegin?, clipEnd?}) leaves the fragment with
\* clipBegin < clipEnd, whatever the values requested.
C12_UpdateClamps ==
  Updated =>
    LET s == FindOverlay(last.pre.smilFiles, last.id)
        F == last.pre.smilFiles[s].fragments
        G == epubData.smilFiles[s].fragments
    IN  (UniqueIds(F) /\ ById(F, last.id).clipBegin < ById(F, last.id).clipEnd)
          => ById(G, last.id).clipBegin < ById(G, last.id).clipEnd

\* the last event added a default fragment after a fragment that was found, in
\* a list of fragments with ids of their own
AddedDefault ==
  /\ last.op = "add"
  /\ last.updates = << >>
  /\ FindOverlay(last.pre.smilFiles, last.id) # 0
  /\ UniqueIds(last.pre.smilFiles[FindOverlay(last.pre.smilFiles, last.id)].fragments)
  /\ FindOverlay(last.pre.smilFiles, NewFragmentId(last.at)) = 0

\* C13: add(afterId, partial) inserts exactly one new fragment, of 1 s by
\* default, and after renormalization the new fragment is at index(afterId) + 1.
C13_AddAfter ==
  AddedDefault =>
    LET s == FindOverlay(last.pre.smilFiles, last.id)
        F == last.pre.smilFiles[s].fragments
        G == epubData.smilFiles[s].fragments
        new == NewFragmentId(last.at)
    IN  /\ Len(G) = Len(F) + 1
        /\ {G[k].id : k \in 1..Len(G)} \ {F[j].id : j \in 1..Len(F)} = {new}
        /\ ById(G, new).clipEnd - ById(G, new).clipBegin = DefaultClipEnd
        /\ FindIndex(G, new) = FindIndex(G, last.id) + 1

\* the last event deleted a fragment that was found, in a list of fragments
\* with ids of their own
Deleted ==
  /\ last.op = "delete"
  /\ FindOverlay(last.pre.smilFiles, last.id) # 0
  /\ UniqueIds(last.pre.smilFiles[FindOverlay(last.pre.smilFiles, last.id)].fragments)

\* C14: delete(id) removes exactly the fragment with that id and renormalizes
\* order; the clipBegin and clipEnd of every remaining fragment are unchanged.
C14_DeleteKeepsTimes ==
  Deleted =>
    LET s == FindOverlay(last.pre.smilFiles, last.id)
        F == last.pre.smilFiles[s].fragments
        G == epubData.smilFiles[s].fragments
    IN  /\ Len(G) = Len(F) - 1
        /\ FindIndex(G, last.id) = 0
        /\ OrderIsIndex(G)
        /\ \A j \in 1..Len(F) :
             F[j].id # last.id =>
               /\ FindIndex(G, F[j].id) # 0
               /\ ById(G, F[j].id).clipBegin = F[j].clipBegin
               /\ ById(G, F[j].id).clipEnd = F[j].clipEnd

\* B of A[0,5], B[5,10], C[10,15] deleted: A and C keep their times, and the gap
C14_Witness ==
  /\ Deleted
  /\ last.id = <<"B">>
  /\ Times(last.pre.smilFiles[1].fragments) = << <<0, 500>>, <<500, 1000>>, <<1000, 1500>> >>
  /\ Times(epubData.smilFiles[1].fragments) = << <<0, 500>>, <<1000, 1500>> >>

-----------------------------------------------------------------------------
(* Properties of export and load *)

\* the archive the session holds
Zip == originalZip[1]

BasePathOf(zip) == calculateBasePath(zip[ContainerPath].fullPath)

\* the overlays of a model that an export writes: those a chapter refers to and
\* the manifest lists
Exported(data) ==
  {s \in 1..Len(data.smilFiles) :
     /\ ChapterOfOverlay(data.chapters, data.smilFiles[s].id) # 0
     /\ ManifestIndex(data.manifest, data.smilFiles[s].id) # 0}

\* the archive path of overlay s of a model, and of the chapter that refers to it
OverlayPathOf(zip, data, s) ==
  PathOf(BasePathOf(zip), data.manifest[ManifestIndex(data.manifest, data.smilFiles[s].id)].href)

MarkupPathOf(zip, data, s) ==
  PathOf(BasePathOf(zip),
         data.chapters[ChapterOfOverlay(data.chapters, data.smilFiles[s].id)].href)

\* the fragment's text reference names an element of the markup
Resolves(fragment, content) ==
  /\ fragment.textSrc.frag # NoId
  /\ FindById(<<content>>, fragment.textSrc.frag) # None

RECURSIVE ResolvingIds(_, _)
\* the ids of the fragments of a list that resolve, in list order
ResolvingIds(fragments, content) ==
  IF fragments = << >> THEN << >>
  ELSE (IF Resolves(Head(fragments), content) THEN <<Head(fragments).id>> ELSE << >>)
       \o ResolvingIds(Tail(fragments), content)

ParIds(pars) == [i \in 1..Len(pars) |-> pars[i].id]

ExportFinished == last.op = "exportFinish"

\* C15: an orphaned fragment stays in the live model across HTML edits and
\* exports; the overlay bodies an export writes hold, in list order, exactly the
\* fragments whose text reference resolves in the chapter markup it writes
C15_OrphansStayOutOfExport ==
  /\ last.op = "htmlEdit" => epubData.smilFiles = last.pre.smilFiles
  /\ last.op \in {"exportStart", "exportFinish"} => epubData = last.pre
  /\ ExportFinished =>
       \A s \in Exported(last.closure) :
         ParIds(Zip[OverlayPathOf(Zip, last.closure, s)].pars)
           = ResolvingIds(last.closure.smilFiles[s].fragments,
                          Zip[MarkupPathOf(Zip, last.closure, s)].content)

\* an export has written a body without a fragment that the live model still
\* holds and whose element an HTML edit removed, next to one that resolves
C15_Witness ==
  /\ ExportFinished
  /\ \E s \in Exported(epubData) :
       LET fragments == epubData.smilFiles[s].fragments
           content == Zip[MarkupPathOf(Zip, epubData, s)].content
           pars == Zip[OverlayPathOf(Zip, epubData, s)].pars
       IN  \E i, j \in 1..Len(fragments) :
             /\ ~Resolves(fragments[i], content)
             /\ \A k \in 1..Len(pars) : pars[k].id # fragments[i].id
             /\ Resolves(fragments[j], content)
             /\ \E k \in 1..Len(pars) : pars[k].id = fragments[j].id

\* the duration entries of the OPF metadata of an archive
DurationEntries(zip) ==
  LET IsDuration(entry) == entry.property = "media:duration"
  IN  SelectSeq(zip[zip[ContainerPath].fullPath].metadata, IsDuration)

RECURSIVE MaxResolvingClipEnd(_, _)
\* the greatest clipEnd among the fragments of a list that resolve, 0 when none does
MaxResolvingClipEnd(fragments, content) ==
  IF fragments = << >> THEN 0
  ELSE LET rest == Tail(fragments)
       IN  IF ~Resolves(Head(fragments), content) THEN MaxResolvingClipEnd(rest, content)
           ELSE IF \E i \in 1..Len(rest) : Resolves(rest[i], content)
           THEN Max(Head(fragments).clipEnd, MaxResolvingClipEnd(rest, content))
           ELSE Head(fragments).clipEnd

\* C16: after an export the OPF metadata holds exactly one duration entry per
\* exported overlay, refining that overlay and equal to the formatted greatest
\* clipEnd of its surviving fragments, exactly one un-refined total, and no
\* other duration entry
C16_DurationEntries ==
  ExportFinished =>
    LET entries == DurationEntries(Zip)
        Refining(id) == {i \in 1..Len(entries) : entries[i].refines = id}
    IN  /\ \A s \in Exported(last.closure) :
             /\ Cardinality(Refining(last.closure.smilFiles[s].id)) = 1
             /\ \A i \in Refining(last.closure.smilFiles[s].id) :
                  entries[i].value =
                    formatSMILDuration(
                      MaxResolvingClipEnd(last.closure.smilFiles[s].fragments,
                                          Zip[MarkupPathOf(Zip, last.closure, s)].content))
        /\ Cardinality(Refining(Null)) = 1
        /\ Len(entries) = Cardinality(Exported(last.closure)) + 1

\* the entries export leaves alone: neither chapter markup, nor overlay body, nor OPF
Untouched(entry) == entry.kind \in {"bytes", "container"}

\* C17: whatever the number of exports, the archive has the entries of the file
\* that was loaded, and each entry that is neither chapter markup, nor an
\* overlay body, nor the OPF is as it was in that file
C17_OtherEntriesKept ==
  \E archive \in Archives :
    /\ epubData.manifest = archive.manifest
    /\ DOMAIN Zip = DOMAIN ZipOf(archive)
    /\ \A path \in DOMAIN Zip :
         Untouched(ZipOf(archive)[path]) => Zip[path] = ZipOf(archive)[path]

\* a second export has finished, and the archive differs from what it was
\* before that export
C17_Witness ==
  /\ ExportFinished
  /\ nExports >= 2
  /\ Zip # last.preZip[1]

\* every overlay of the model is exported and every fragment resolves in the
\* markup of the chapter that refers to its overlay
NoOrphans(data) ==
  \A s \in 1..Len(data.smilFiles) :
    /\ s \in Exported(data)
    /\ \A i \in 1..Len(data.smilFiles[s].fragments) :
         Resolves(data.smilFiles[s].fragments[i],
                  data.chapters[ChapterOfOverlay(data.chapters, data.smilFiles[s].id)].content)

\* what a round trip is to keep of a fragment list
Timeline(fragments) ==
  [i \in 1..Len(fragments) |->
     [id |-> fragments[i].id, clipBegin |-> fragments[i].clipBegin,
      clipEnd |-> fragments[i].clipEnd]]

C19_ExportsInvokedModel ==
  ExportFinished => Zip = ExportWrites(last.preZip[1], last.invoked)

\* C20: after a load that failed an error is set, and the model, the archive
\* that export writes into and the chapter selection are what they were before
C20_FailedLoadKeepsSession ==
  last.op = "loadFailed" =>
    /\ error # None
    /\ epubData = last.pre
    /\ originalZip = last.preZip
    /\ selectedChapter = last.preChapter


-----------------------------------------------------------------------------
(* Loads in flight: loadEPUB from its call to its finally block.  SpecLoading
   starts on the upload screen and lets loads overlap where the screen does. *)

\* useState<EPUBData | null>(null)
NoBook == [book |-> "null"]

\* the state of the hook and the views before any file was chosen
Unloaded ==
  /\ epubData = NoBook
  /\ selectedChapter = Null
  /\ selectedFragment = None
  /\ now = 0
  /\ dragStartPositions = {}
  /\ isDragging = FALSE
  /\ draggedRegionId = None
  /\ liveRegion = None
  /\ originalZip = None
  /\ pendingExport = None
  /\ error = None
  /\ isLoading = FALSE
  /\ inFlight = {}
  /\ currentTime = 0
  /\ suppressAutoSelectUntil = 0
  /\ autoSelectDeps = None
  /\ currentAudioBlob = None
  /\ lastAudioFileBlobRef = None
  /\ audioDeps = None
  /\ last = NoLast
  /\ nOps = 0
  /\ nExports = 0

InitLoading ==
  /\ Unloaded
  /\ split = NoSplit

\* loadEPUB(file) up to its first await: setIsLoading(true); setError(null)
LoadStart(file) ==
  /\ Event(Did("loadStart", NoId, nOps + 1, 0, << >>), MaxLoads)
  /\ isLoading' = TRUE
  /\ error' = None
  /\ inFlight' = inFlight \cup {[n |-> nOps + 1, file |-> file, phase |-> "reading"]}
  /\ UNCHANGED <<epubData, selectedChapter, selectedFragment, now, split, originalZip,
                 pendingExport, nExports>>
  /\ NoDragChange
  /\ NoViewChange

\* FileUpload: handleDrop, on the upload screen; the drop zone takes a file
\* whether or not a load is running
DropFile ==
  /\ error = None
  /\ epubData = NoBook
  /\ \E file \in Files : LoadStart(file)

\* FileUpload and App: handleFileInput; both inputs are disabled while isLoading
ChooseFile ==
  /\ error = None
  /\ ~isLoading
  /\ \E file \in Files : LoadStart(file)

\* loadEPUB(file) from the call to the settling of JSZip.loadAsync(file):
\* setOriginalZip(zip) when the file is an archive, else catch and finally
LoadOpened ==
  \E load \in inFlight :
    /\ load.phase = "reading"
    /\ last' = Did(IF load.file.readable THEN "loadOpened" ELSE "loadFailed",
                   NoId, load.n, 0, << >>)
    /\ IF load.file.readable
       THEN /\ originalZip' = Some(load.file.zip)
            /\ inFlight' = (inFlight \ {load}) \cup {[load EXCEPT !.phase = "parsing"]}
            /\ UNCHANGED <<error, isLoading>>
       ELSE /\ error' = Some("Can't find end of central directory")
            /\ inFlight' = inFlight \ {load}
            /\ isLoading' = FALSE
            /\ UNCHANGED originalZip
    /\ UNCHANGED <<epubData, selectedChapter, selectedFragment, now, split, pendingExport,
                   nOps, nExports>>
    /\ NoDragChange
    /\ NoViewChange

\* loadEPUB(file) from the settling of parser.parse() to the end of its finally
\* block
LoadSettle ==
  \E load \in inFlight :
    LET parsed == parse(load.file.zip)
    IN  /\ load.phase = "parsing"
        /\ last' = Did(IF parsed.ok THEN "loaded" ELSE "loadFailed", NoId, load.n, 0, << >>)
        /\ inFlight' = inFlight \ {load}
        /\ IF parsed.ok
           THEN /\ epubData' = parsed.data
                /\ selectedChapter' =
                     IF RestoredChapter(parsed.data.chapters, selectedChapter) # Null
                     THEN RestoredChapter(parsed.data.chapters, selectedChapter)
                     ELSE selectedChapter
                /\ UNCHANGED error
           ELSE /\ error' = Some(parsed.message)
                /\ UNCHANGED <<epubData, selectedChapter>>
        /\ isLoading' = FALSE
        /\ UNCHANGED <<selectedFragment, now, split, originalZip, pendingExport, nOps,
                       nExports>>
        /\ NoDragChange
        /\ NoViewChange

NextLoading ==
  \/ DropFile
  \/ ChooseFile
  \/ LoadOpened
  \/ LoadSettle

\* a promise that was started settles
SpecLoading ==
  InitLoading /\ [][NextLoading]_vars /\ WF_vars(LoadOpened) /\ WF_vars(LoadSettle)

\* C21: every load settles as resolved (model set, error unset) or failed (error
\* set), and isLoading is true exactly while some load is in flight
C21_LoadingWhileInFlight ==
  /\ isLoading <=> inFlight # {}
  /\ last.op = "loaded" => epubData # NoBook /\ error = None
  /\ last.op = "loadFailed" => error # None


-----------------------------------------------------------------------------
(* Playback: the playback time, the selections made by hand and the
   auto-selection effect of the waveform view.  Date.now() is in milliseconds,
   the playback time in centiseconds. *)

RECURSIVE FirstAt(_, _)
\* the auto-selection effect's loop: the first fragment, in list order, that the
\* playback time lies in, or null
FirstAt(fragments, time) ==
  IF fragments = << >> THEN None
  ELSE IF /\ time > Head(fragments).clipBegin - REGION_EPSILON
          /\ time < Head(fragments).clipEnd - REGION_EPSILON
       THEN Some(Head(fragments))
       ELSE FirstAt(Tail(fragments), time)

\* the values of the effect's dependency list [currentTime, fragments]
AutoSelectDepsNow == Some(<<currentTime, CurrentFragments(epubData, selectedChapter)>>)

\* React has run the effect for the values rendered last: no run is pending
EffectFlushed == autoSelectDeps = AutoSelectDepsNow

\* what a handler of the view leaves behind; manual tells a selection by hand
Viewed(op, manual) ==
  [op |-> op, at |-> now, preSel |-> selectedFragment,
   manualAt |-> IF manual THEN Some(now)
                ELSE IF "manualAt" \in DOMAIN last THEN last.manualAt ELSE None]

\* the playback times a session may have reached when it is first looked at
StartTimes == {0, 498, 750, 999, 1498}

\* the milliseconds between two timeupdate events
TickMillis == {10, 150}

PlaybackStarted ==
  \E archive \in Archives, time \in StartTimes :
    /\ epubData = ParseArchive(archive)
    /\ selectedChapter = FirstChapter(archive.chapters)
    /\ currentTime = time
    /\ selectedFragment = FirstAt(CurrentFragments(epubData, selectedChapter), time)
    /\ autoSelectDeps = AutoSelectDepsNow
    /\ originalZip = Some(ZipOf(archive))
    /\ now = 0
    /\ dragStartPositions = {}
    /\ isDragging = FALSE
    /\ draggedRegionId = None
    /\ liveRegion = None
    /\ pendingExport = None
    /\ error = None
    /\ isLoading = FALSE
    /\ inFlight = {}
    /\ suppressAutoSelectUntil = 0
    /\ currentAudioBlob = None
    /\ lastAudioFileBlobRef = None
    /\ audioDeps = None
    /\ last = NoLast
    /\ nOps = 0
    /\ nExports = 0

InitPlayback ==
  /\ PlaybackStarted
  /\ split = NoSplit

\* what no handler of the view touches
NoModelChange ==
  /\ UNCHANGED <<epubData, selectedChapter, split, originalZip, pendingExport, error,
                 nExports, autoSelectDeps>>
  /\ NoDragChange
  /\ NoLoadChange
  /\ NoAudioChange

\* selectAndSeekFragment(fragment)
selectAndSeekFragment(fragment) ==
  /\ selectedFragment' = Some(fragment)
  /\ currentTime' = fragment.clipBegin

\* ws.on('timeupdate', (time) => setCurrentTime(time)), as the audio plays on
PlaybackTick ==
  \E millis \in TickMillis :
    /\ EffectFlushed
    /\ Event(Viewed("timeupdate", FALSE), MaxPlaybackEvents)
    /\ now' = now + millis
    /\ currentTime' = currentTime + millis \div 10
    /\ UNCHANGED <<selectedFragment, suppressAutoSelectUntil>>
    /\ NoModelChange

\* regionsPlugin.on('region-clicked')
RegionClick ==
  \E id \in CurrentIds(epubData, selectedChapter) :
    /\ EffectFlushed
    /\ Event(Viewed("regionClick", TRUE), MaxPlaybackEvents)
    /\ suppressAutoSelectUntil' = now + SuppressMillis
    /\ selectAndSeekFragment(CurrentFragment(epubData, selectedChapter, id))
    /\ UNCHANGED now
    /\ NoModelChange

\* ContentViewer: onFragmentSelect(fragment) of App
ContentClick ==
  \E i \in 1..Len(CurrentFragments(epubData, selectedChapter)) :
    LET fragment == CurrentFragments(epubData, selectedChapter)[i]
    IN  /\ EffectFlushed
        /\ Event(Viewed("contentClick", TRUE), MaxPlaybackEvents)
        /\ selectedFragment' = Some(fragment)
        \* seekToFragment(fragment)
        /\ currentTime' = fragment.clipBegin
        /\ UNCHANGED <<now, suppressAutoSelectUntil>>
        /\ NoModelChange

\* handlePrevFragment (step = -1) and handleNextFragment (step = 1)
StepFragment(op, step) ==
  LET fragments == CurrentFragments(epubData, selectedChapter)
      idx == IF selectedFragment = None THEN 0
             ELSE FindIndex(fragments, selectedFragment[1].id)
  IN  /\ EffectFlushed
      /\ selectedFragment # None
      /\ idx # 0
      /\ idx + step \in 1..Len(fragments)
      /\ Event(Viewed(op, TRUE), MaxPlaybackEvents)
      /\ selectAndSeekFragment(fragments[idx + step])
      /\ UNCHANGED <<now, suppressAutoSelectUntil>>
      /\ NoModelChange

handlePrevFragment == StepFragment("prev", -1)

handleNextFragment == StepFragment("next", 1)

\* FragmentEditor: add a fragment with the default timing after one of the list
AddDefaultFragment == EffectFlushed /\ AddFragmentIn({<< >>}, MaxPlaybackEvents)

\* the effect on [currentTime, fragments]
AutoSelect ==
  LET fragments == CurrentFragments(epubData, selectedChapter)
      suppressed == now < suppressAutoSelectUntil
  IN  /\ ~EffectFlushed
      /\ autoSelectDeps' = AutoSelectDepsNow
      /\ selectedFragment' =
           IF suppressed THEN selectedFragment ELSE FirstAt(fragments, currentTime)
      /\ last' = [Viewed("autoSelect", FALSE) EXCEPT !.op = "autoSelect"]
                   @@ [suppressed |-> suppressed, time |-> currentTime,
                       fragments |-> fragments]
      /\ UNCHANGED <<epubData, selectedChapter, now, split, originalZip, pendingExport,
                     error, nExports, nOps, currentTime, suppressAutoSelectUntil>>
      /\ NoDragChange
      /\ NoLoadChange
      /\ NoAudioChange

NextPlayback ==
  \/ PlaybackTick
  \/ RegionClick
  \/ ContentClick
  \/ handlePrevFragment
  \/ handleNextFragment
  \/ AddDefaultFragment
  \/ AutoSelect

SpecPlayback == InitPlayback /\ [][NextPlayback]_vars

\* the fragment C22 names for a time: the first, in list order, with
\* clipBegin - 0.01 <= time < clipEnd - 0.01
RECURSIVE FirstCovering(_, _)
FirstCovering(fragments, time) ==
  IF fragments = << >> THEN None
  ELSE IF /\ Head(fragments).clipBegin - REGION_EPSILON <= time
          /\ time < Head(fragments).clipEnd - REGION_EPSILON
       THEN Some(Head(fragments))
       ELSE FirstCovering(Tail(fragments), time)

\* each fragment begins where the one before it ends
Contiguous(fragments) ==
  \A i \in 1..Len(fragments) - 1 : fragments[i].clipEnd = fragments[i + 1].clipBegin

\* C22: a playback tick outside the suppression window selects the first fragment
\* with clipBegin - 0.01 <= t < clipEnd - 0.01, or none when there is none; on a
\* contiguous timeline every t from first.clipBegin - 0.01 up to, not including,
\* last.clipEnd - 0.01 selects a fragment
C22_TickSelectsCoveringFragment ==
  (last.op = "autoSelect" /\ ~last.suppressed) =>
     /\ selectedFragment = FirstCovering(last.fragments, last.time)
     /\ ( /\ last.fragments # << >>
          /\ Contiguous(last.fragments)
          /\ last.fragments[1].clipBegin - REGION_EPSILON <= last.time
          /\ last.time < last.fragments[Len(last.fragments)].clipEnd - REGION_EPSILON )
        => selectedFragment # None

\* C23: for 300 ms after a selection by hand (region click, content-panel click,
\* Prev, Next) the auto-selection neither changes nor clears the selection
C23_ManualSelectionHolds ==
  ( /\ last.op = "autoSelect"
    /\ last.manualAt # None
    /\ last.at < last.manualAt[1] + SuppressMillis )
  => selectedFragment = last.preSel


-----------------------------------------------------------------------------
(* Commits of the region listeners *)

\* the calls of update, among those of one 'region-updated' event, that name the
\* changed fragment
UpdatesOfChanged == SelectSeq(last.log, LAMBDA call : call.id = last.id)

\* the changed fragment as the model held it before the event
ChangedBefore == CurrentFragment(last.pre, last.preChapter, last.id)

\* C24: each drag release and each region change without a drag makes one commit:
\* update is called once for the changed fragment, with the final bounds, and the
\* cascade is evaluated once, against the bounds before the change
C24_OneCommitPerChange ==
  last.op \in {"dragEnd", "commit"} =>
    /\ UpdatesOfChanged = <<[id |-> last.id,
                             updates |-> [clipBegin |-> last.x, clipEnd |-> last.y]]>>
    /\ last.cascades = <<[clipBegin |-> ChangedBefore.clipBegin,
                          clipEnd |-> ChangedBefore.clipEnd]>>


-----------------------------------------------------------------------------
(* The markup after splitFragmentByText *)

\* the last event was a splitFragmentByText that found its fragment and element
SplitByTextDone ==
  /\ last.op = "splitByText"
  /\ SplitTarget(last.pre, last.preChapter, last.id) # None

\* C25: splitByText puts two new elements where the referenced element was, each
\* with every attribute of the original except id; the siblings and the rest of
\* the markup are as before
C25_SplitKeepsAttributes ==
  SplitByTextDone =>
    LET t == SplitTarget(last.pre, last.preChapter, last.id)[1]
        G == epubData.smilFiles[t.s].fragments
        doc == epubData.chapters[t.c].content
        el1 == FindById(<<doc>>, ById(G, Append(t.originalFragment.id, "part1")).textSrc.frag)
        el2 == FindById(<<doc>>, ById(G, Append(t.originalFragment.id, "part2")).textSrc.frag)
    IN  UniqueIds(last.pre.smilFiles[t.s].fragments) =>
          /\ el1 # None
          /\ el2 # None
          /\ doc = ReplaceWithSpans(t.doc, t.originalFragment.textSrc.frag, el1[1], el2[1])
          /\ el1[1].attrs = t.originalElement.attrs
          /\ el2[1].attrs = t.originalElement.attrs

\* C26: whatever the time between two splitByText operations, the two element ids
\* a split generates differ from each other and from every id of the markup it
\* works on, so that each child's text reference finds the element made for it
C26_SplitIdsFresh ==
  SplitByTextDone =>
    LET t == SplitTarget(last.pre, last.preChapter, last.id)[1]
        doc == epubData.chapters[t.c].content
        parts == SplitNodes(t.originalElement, last.x)
        id1 == SplitElementId(last.at, 1)
        id2 == SplitElementId(last.at, 2)
    IN  /\ id1 # id2
        /\ id1 \notin AllIds(t.doc)
        /\ id2 \notin AllIds(t.doc)
        /\ FindById(<<doc>>, id1) = Some(NewSpan(id1, parts.nodes1))
        /\ FindById(<<doc>>, id2) = Some(NewSpan(id2, parts.nodes2))


-----------------------------------------------------------------------------
(* Clock values as text: formatSMILDuration writes them, parseTime reads them.
   A literal is the sequence of its characters; a number is a whole number of
   milliseconds, or NaN. *)

NaN == [nan |-> TRUE]
Num(millis) == [nan |-> FALSE, millis |-> millis]

DigitChars == <<"0", "1", "2", "3", "4", "5", "6", "7", "8", "9">>

IsDigit(c) == \E i \in 1..10 : DigitChars[i] = c

DigitValue(c) == (CHOOSE i \in 1..10 : DigitChars[i] = c) - 1

RECURSIVE Digits(_)
\* n.toString() of a natural number
Digits(n) ==
  IF n < 10 THEN <<DigitChars[n + 1]>>
  ELSE Append(Digits(n \div 10), DigitChars[(n % 10) + 1])

RECURSIVE padStart(_, _)
\* chars.padStart(width, '0')
padStart(chars, width) == IF Len(chars) >= width THEN chars ELSE padStart(<<"0">> \o chars, width)

\* a variant of toFixed that drops the digit carried out of the seconds
ToFixedWrapping(millis, tieUp) ==
  LET centis == (millis \div 10 + (IF millis % 10 > 5 \/ (millis % 10 = 5 /\ tieUp) THEN 1 ELSE 0)) % 6000
  IN  Digits(centis \div 100) \o <<".">> \o padStart(Digits(centis % 100), 2)

\* secs.toFixed(2) of a number of milliseconds: the nearest hundredth; which way
\* a value half way between two hundredths goes depends on its binary expansion
toFixed(millis, tieUp) ==
  LET centis == millis \div 10 + (IF millis % 10 > 5 \/ (millis % 10 = 5 /\ tieUp) THEN 1 ELSE 0)
  IN  Digits(centis \div 100) \o <<".">> \o padStart(Digits(centis % 100), 2)

\* formatSMILDuration(seconds), character by character
ClockLiteral(millis, tieUp) ==
  LET hours == millis \div 3600000
      minutes == (millis % 3600000) \div 60000
      secs == millis % 60000
  IN  padStart(Digits(hours), 2) \o <<":">> \o padStart(Digits(minutes), 2) \o <<":">>
      \o padStart(toFixed(secs, tieUp), 5)

RECURSIVE DigitRun(_)
\* the digits a sequence of characters starts with
DigitRun(chars) ==
  IF chars # << >> /\ IsDigit(Head(chars)) THEN <<Head(chars)>> \o DigitRun(Tail(chars)) ELSE << >>

RECURSIVE NatOf(_)
NatOf(digits) ==
  IF digits = << >> THEN 0 ELSE 10 * NatOf(SubSeq(digits, 1, Len(digits) - 1)) + DigitValue(digits[Len(digits)])

RECURSIVE TrimStart(_)
TrimStart(chars) == IF chars # << >> /\ Head(chars) = " " THEN TrimStart(Tail(chars)) ELSE chars

\* parseFloat(chars): the longest prefix, after leading blanks, that is a decimal
\* number (sign, digits, point, digits; no exponent), NaN when there is none;
\* digits after the third decimal are not kept
parseFloat(chars) ==
  LET trimmed == TrimStart(chars)
      signed == trimmed # << >> /\ Head(trimmed) \in {"-", "+"}
      body == IF signed THEN Tail(trimmed) ELSE trimmed
      whole == DigitRun(body)
      rest == SubSeq(body, Len(whole) + 1, Len(body))
      fraction == IF rest # << >> /\ Head(rest) = "." THEN DigitRun(Tail(rest)) ELSE << >>
      thousandths == SubSeq(fraction \o <<"0", "0", "0">>, 1, 3)
      magnitude == NatOf(whole) * 1000 + NatOf(thousandths)
  IN  IF whole = << >> /\ fraction = << >> THEN NaN
      ELSE Num(IF signed /\ Head(trimmed) = "-" THEN 0 - magnitude ELSE magnitude)

RECURSIVE SplitAt(_, _)
\* chars.split(sep)
SplitAt(chars, sep) ==
  IF \A i \in 1..Len(chars) : chars[i] # sep THEN <<chars>>
  ELSE LET k == CHOOSE i \in 1..Len(chars) :
                  chars[i] = sep /\ \A j \in 1..(i - 1) : chars[j] # sep
       IN  <<SubSeq(chars, 1, k - 1)>> \o SplitAt(SubSeq(chars, k + 1, Len(chars)), sep)

RECURSIVE Power(_, _)
Power(base, exponent) == IF exponent = 0 THEN 1 ELSE base * Power(base, exponent - 1)

RECURSIVE ClockSum(_, _)
\* parts.reduce((acc, curr, idx) => acc + curr * Math.pow(60, parts.length - idx - 1), 0),
\* from part idx on
ClockSum(parts, idx) ==
  IF idx > Len(parts) THEN Num(0)
  ELSE LET rest == ClockSum(parts, idx + 1)
       IN  IF parts[idx].nan \/ rest.nan THEN NaN
           ELSE Num(parts[idx].millis * Power(60, Len(parts) - idx) + rest.millis)

\* parseTime(timeStr)
parseTime(timeStr) ==
  IF timeStr # << >> /\ timeStr[Len(timeStr)] = "s"
  THEN parseFloat(SubSeq(timeStr, 1, Len(timeStr) - 1))
  ELSE IF \E i \in 1..Len(timeStr) : timeStr[i] = ":"
  THEN LET texts == SplitAt(timeStr, ":")
       IN  ClockSum([i \in 1..Len(texts) |-> parseFloat(texts[i])], 1)
  ELSE IF parseFloat(timeStr) = NaN \/ parseFloat(timeStr) = Num(0) THEN Num(0)
       ELSE parseFloat(timeStr)

\* durations in milliseconds: the small ones, and those around a second, a
\* minute and an hour
Durations ==
  (0..MaxDurationMillis)
  \cup {994, 995, 999, 1000, 59990, 59994, 59995, 59999, 60000, 119999,
        3599994, 3599995, 3599999, 3600000, 360000000}

\* clipBegin / clipEnd attribute values of an overlay
ClipLiterals ==
  { <<"5", "s">>, <<"1", ".", "5", "s">>, <<"0", ":", "0", "1", ":", "0", "5">>,
    <<"1", "2">>, << >>, <<"a", "b", "c">>, <<"x", "s">>, <<"s">>,
    <<"1", ":", "x">>, <<"1", ":", ":", "2">>, <<":">>, <<"5", "x", "s">> }

\* no book is loaded; last holds the value the next step works on
InitTime ==
  /\ epubData = NoBook
  /\ selectedChapter = Null
  /\ selectedFragment = None
  /\ now = 0
  /\ dragStartPositions = {}
  /\ isDragging = FALSE
  /\ draggedRegionId = None
  /\ liveRegion = None
  /\ split = NoSplit
  /\ originalZip = None
  /\ pendingExport = None
  /\ error = None
  /\ isLoading = FALSE
  /\ inFlight = {}
  /\ currentTime = 0
  /\ suppressAutoSelectUntil = 0
  /\ autoSelectDeps = None
  /\ currentAudioBlob = None
  /\ lastAudioFileBlobRef = None
  /\ audioDeps = None
  /\ nOps = 0
  /\ nExports = 0
  /\ \/ \E millis \in Durations : last = [op |-> "duration", millis |-> millis]
     \/ \E literal \in ClipLiterals : last = [op |-> "literal", literal |-> literal]

NoSessionChange ==
  /\ UNCHANGED <<epubData, selectedChapter, selectedFragment, now, split, originalZip,
                 pendingExport, error, nOps, nExports>>
  /\ NoDragChange
  /\ NoLoadChange
  /\ NoViewChange

\* formatSMILDuration(seconds)
FormatDuration ==
  \E tieUp \in BOOLEAN :
    /\ last.op = "duration"
    /\ last' = [op |-> "literal", millis |-> last.millis,
                literal |-> ClockLiteral(last.millis, tieUp)]
    /\ NoSessionChange

\* parseTime(timeStr); warnings counts the warnings it raises
ParseTime ==
  /\ last.op = "literal"
  /\ last' = [last EXCEPT !.op = "parsed"]
               @@ [value |-> parseTime(last.literal), warnings |-> 0]
  /\ NoSessionChange

NextTime ==
  \/ FormatDuration
  \/ ParseTime

SpecTime == InitTime /\ [][NextTime]_vars

\* the literals parseTime is written for: a decimal number, a decimal number
\* followed by s, or decimal numbers separated by colons
IsDecimal(chars) ==
  /\ chars # << >>
  /\ \A i \in 1..Len(chars) : IsDigit(chars[i]) \/ chars[i] = "."
  /\ Cardinality({i \in 1..Len(chars) : chars[i] = "."}) <= 1
  /\ \E i \in 1..Len(chars) : IsDigit(chars[i])

ValidLiteral(chars) ==
  \/ IsDecimal(chars)
  \/ chars # << >> /\ chars[Len(chars)] = "s" /\ IsDecimal(SubSeq(chars, 1, Len(chars) - 1))
  \/ /\ \E i \in 1..Len(chars) : chars[i] = ":"
     /\ \A i \in 1..Len(SplitAt(chars, ":")) : IsDecimal(SplitAt(chars, ":")[i])

\* C27: parsing an invalid clip-time literal, one that ends in s or holds a colon
\* included, yields 0 with a warning; the value is never non-numeric
C27_InvalidLiteralIsZero ==
  (last.op = "parsed" /\ ~ValidLiteral(last.literal)) =>
     /\ last.value = Num(0)
     /\ last.warnings > 0

\* C28: for every non-negative duration d, parse(format(d)) is within 0.01 s of
\* d, also when the seconds round up to the next minute (59.999 s)
C28_FormatParseRoundTrip ==
  (last.op = "parsed" /\ "millis" \in DOMAIN last) =>
     /\ ~last.value.nan
     /\ Abs(last.value.millis - last.millis) <= 10

\* 59.999 s is written 00:00:60.00 and read as 60 s
C28_Witness ==
  /\ last.op = "parsed"
  /\ "millis" \in DOMAIN last
  /\ last.millis = 59999
  /\ last.literal = <<"0", "0", ":", "0", "0", ":", "6", "0", ".", "0", "0">>
  /\ last.value = Num(60000)


-----------------------------------------------------------------------------
(* The fragments of a loaded overlay *)

\* the par has a text child and an audio child
HasTextAndAudio(par) == par.text # None /\ par.audio # None

\* the pars of an overlay body in document order: the body's own, or those of
\* its top-level groups, group after group
DocumentPars(body) ==
  IF "seqs" \in DOMAIN body /\ body.seqs # << >> THEN Flattened(body.seqs) ELSE body.pars

\* C29: parsing an overlay body gives one fragment per par that has both a text
\* and an audio child, in document order, none for a par that lacks either, and
\* the i-th fragment (counted from 0) has order i
C29_FragmentPerCompletePar ==
  last.op = "loaded" =>
    \A s \in 1..Len(epubData.smilFiles) :
      LET pars == SelectSeq(DocumentPars(Zip[OverlayPathOf(Zip, epubData, s)]), HasTextAndAudio)
          F == epubData.smilFiles[s].fragments
      IN  /\ Len(F) = Len(pars)
          /\ \A i \in 1..Len(F) :
               /\ F[i].textSrc = pars[i].text[1]
               /\ F[i].audioSrc = pars[i].audio[1].src
               /\ F[i].clipBegin = pars[i].audio[1].clipBegin
               /\ F[i].clipEnd = pars[i].audio[1].clipEnd
               /\ F[i].order = i - 1


-----------------------------------------------------------------------------
(* The audio of the active chapter: the effect on [epubData, selectedChapter] *)

\* path.split('/') of the hrefs and audio references with more than one segment
SegmentsOf(path) ==
  CASE path = "smil/s1.smil" -> <<"smil", "s1.smil">>
    [] path = "smil/s2.smil" -> <<"smil", "s2.smil">>
    [] path = "smil/s3.smil" -> <<"smil", "s3.smil">>
    [] path = "audio/a1.mp3" -> <<"audio", "a1.mp3">>
    [] path = "../audio/a1.mp3" -> <<"..", "audio", "a1.mp3">>
    [] path = "../audio/none.mp3" -> <<"..", "audio", "none.mp3">>
    [] OTHER -> <<path>>

RECURSIVE Normalized(_, _)
\* the path of a URL: '..' leaves the last directory, '.' stays
Normalized(dir, segments) ==
  IF segments = << >> THEN dir
  ELSE Normalized(IF Head(segments) = ".." THEN SubSeq(dir, 1, Len(dir) - 1)
                  ELSE IF Head(segments) = "." THEN dir
                  ELSE Append(dir, Head(segments)),
                  Tail(segments))

\* new URL(audioSrc, new URL(smilPath, 'https://example.com')).pathname.substring(1),
\* as segments
ResolvedAudioSrc(smilPath, audioSrc) ==
  LET smil == Normalized(<< >>, SegmentsOf(smilPath))
  IN  IF audioSrc = "" THEN smil
      ELSE Normalized(SubSeq(smil, 1, Len(smil) - 1), SegmentsOf(audioSrc))

\* epubData.audioFiles.get(key): the file's blob, known by its key
AudioFileAt(audioFiles, segments) ==
  IF \E href \in audioFiles : SegmentsOf(href) = segments
  THEN Some(CHOOSE href \in audioFiles : SegmentsOf(href) = segments)
  ELSE None

\* smilItem.$.href of the overlay's manifest item, '' when there is none
SmilPathOf(data, overlayId) ==
  IF ManifestIndex(data.manifest, overlayId) = 0 THEN ""
  ELSE data.manifest[ManifestIndex(data.manifest, overlayId)].href

\* the effect's lookup: the key resolved against the overlay's path, else the
\* reference as written
FoundAudioFile(data, overlayId, audioSrc) ==
  IF AudioFileAt(data.audioFiles, ResolvedAudioSrc(SmilPathOf(data, overlayId), audioSrc)) # None
  THEN AudioFileAt(data.audioFiles, ResolvedAudioSrc(SmilPathOf(data, overlayId), audioSrc))
  ELSE AudioFileAt(data.audioFiles, SegmentsOf(audioSrc))

\* a cover without overlay and three chapters whose overlays lie in smil/; the
\* audio file lies in audio/.  s1 refers to it relative to smil/, s2 by its
\* manifest href, s3 refers to a file the package does not have
ArchiveWithCover ==
  [chapters |-> << [id |-> "cover", href |-> "cover.xhtml", content |-> Markup2, mediaOverlay |-> Null],
                   [id |-> "c1", href |-> "c1.xhtml", content |-> Markup2, mediaOverlay |-> "s1"],
                   [id |-> "c2", href |-> "c2.xhtml", content |-> Markup2, mediaOverlay |-> "s2"],
                   [id |-> "c3", href |-> "c3.xhtml", content |-> Markup2, mediaOverlay |-> "s3"] >>,
   overlays |-> << [id |-> "s1", pars |-> <<
                      Par(<<"A">>, "c1.xhtml", <<"g1">>, "../audio/a1.mp3", 0, 500) >>],
                   [id |-> "s2", pars |-> <<
                      Par(<<"B">>, "c2.xhtml", <<"g1">>, "audio/a1.mp3", 500, 1000) >>],
                   [id |-> "s3", pars |-> <<
                      Par(<<"C">>, "c3.xhtml", <<"g1">>, "../audio/none.mp3", 0, 500) >>] >>,
   manifest |-> << Item("cover", "cover.xhtml", XhtmlType, Null),
                   Item("c1", "c1.xhtml", XhtmlType, "s1"),
                   Item("c2", "c2.xhtml", XhtmlType, "s2"),
                   Item("c3", "c3.xhtml", XhtmlType, "s3"),
                   Item("s1", "smil/s1.smil", SmilType, Null),
                   Item("s2", "smil/s2.smil", SmilType, Null),
                   Item("s3", "smil/s3.smil", SmilType, Null),
                   Item("a1", "audio/a1.mp3", "audio/mpeg", Null) >>,
   metadata |-> << >>]

InitAudio ==
  /\ Loaded(ArchiveWithCover)
  /\ split = NoSplit

\* the values of the effect's dependency list [epubData, selectedChapter]
AudioDepsNow == Some(<<epubData, selectedChapter>>)

\* React has run the effect for the values rendered last
AudioFlushed == audioDeps = AudioDepsNow

\* useEffect(() => {...}, [epubData, selectedChapter])
AudioEffect ==
  LET c == ChapterIndex(epubData.chapters, selectedChapter)
      fragments == CurrentFragments(epubData, selectedChapter)
      audioFile == FoundAudioFile(epubData, epubData.chapters[c].mediaOverlay,
                                  fragments[1].audioSrc)
  IN  /\ ~AudioFlushed
      /\ audioDeps' = AudioDepsNow
      /\ last' = Did("audioEffect", NoId, 0, 0, << >>)
                   @@ [preBlob |-> currentAudioBlob]
      /\ IF selectedChapter = Null
         THEN UNCHANGED <<currentAudioBlob, lastAudioFileBlobRef>>
         ELSE IF c = 0 \/ epubData.chapters[c].mediaOverlay = Null \/ fragments = << >>
         THEN /\ currentAudioBlob' = None
              /\ UNCHANGED lastAudioFileBlobRef
         ELSE IF audioFile = None
         THEN /\ currentAudioBlob' = None
              /\ lastAudioFileBlobRef' = None
         ELSE IF lastAudioFileBlobRef # audioFile
         THEN /\ currentAudioBlob' = audioFile
              /\ lastAudioFileBlobRef' = audioFile
         ELSE UNCHANGED <<currentAudioBlob, lastAudioFileBlobRef>>
      /\ UNCHANGED <<epubData, selectedChapter, selectedFragment, now, split, originalZip,
                     pendingExport, error, nOps, nExports, currentTime,
                     suppressAutoSelectUntil, autoSelectDeps>>
      /\ NoDragChange
      /\ NoLoadChange

\* ChapterList: onChapterSelect, once the effect has run
ChapterClick ==
  \E c \in 1..Len(epubData.chapters) :
    /\ AudioFlushed
    /\ epubData.chapters[c].id # selectedChapter
    /\ selectedChapter' = epubData.chapters[c].id
    /\ Event(Did("selectChapter", NoId, 0, 0, << >>), MaxAudioEvents)
    /\ UNCHANGED <<epubData, selectedFragment, now, split>>
    /\ NoDragChange
    /\ NoExportChange

\* FragmentEditor: onFragmentDelete(id), once the effect has run
DeleteShown == AudioFlushed /\ DeleteFragmentIn(MaxAudioEvents)

NextAudio ==
  \/ AudioEffect
  \/ ChapterClick
  \/ DeleteShown

SpecAudio == InitAudio /\ [][NextAudio]_vars

\* C30: the audio of the active chapter is the file the overlay's audio reference
\* names relative to the overlay's own path; when that is no loaded audio file
\* the current audio is absent; the error stays unset and the chapters and
\* fragment lists are as they were
C30_AudioOfActiveChapter ==
  (last.op = "audioEffect" /\ CurrentFragments(epubData, selectedChapter) # << >>) =>
    LET overlayId == epubData.chapters[ChapterIndex(epubData.chapters, selectedChapter)].mediaOverlay
        audioSrc == CurrentFragments(epubData, selectedChapter)[1].audioSrc
    IN  /\ currentAudioBlob =
             AudioFileAt(epubData.audioFiles,
                         ResolvedAudioSrc(SmilPathOf(epubData, overlayId), audioSrc))
        /\ error = None
        /\ epubData = last.pre

\* ---------------------------------------------------------------------------
\* Position of the children of a split by time

\* C31: after splitByTime(id, t) with clipBegin < t < clipEnd, the second child
\* is at the index of the first child plus one in the list of the overlay, for
\* every list, also one in which another fragment begins strictly between the
\* parent's clipBegin and t
C31_ChildrenAdjacent ==
  SplitInside =>
    LET s == FindOverlay(last.pre.smilFiles, last.id)
        G == epubData.smilFiles[s].fragments
    IN  FindIndex(G, Append(last.id, "part2"))
          = FindIndex(G, Append(last.id, "part1")) + 1

\* ---------------------------------------------------------------------------
\* Text of the first part of a split by text

\* the number of characters before the k-th of a list of sibling nodes
OffsetOf(nodes, k) == Len(TextOfNodes(SubSeq(nodes, 1, k - 1)))

\* the k-th node starts before the offset and ends after it
SpansAt(nodes, k, offset) ==
  /\ OffsetOf(nodes, k) < offset
  /\ offset < OffsetOf(nodes, k) + Len(TextContent(nodes[k]))

\* the places <<k, j>> of an element, child j of child element k of the
\* element, that spans the offset
NestedSpanning(el, offset) ==
  {p \in (1..Len(el.children)) \X (1..MaxTextLen) :
     /\ ~IsText(el.children[p[1]])
     /\ SpansAt(el.children, p[1], offset)
     /\ p[2] <= Len(el.children[p[1]].children)
     /\ ~IsText(el.children[p[1]].children[p[2]])
     /\ SpansAt(el.children[p[1]].children, p[2], offset - OffsetOf(el.children, p[1]))}

\* C32: for 0 <= offset <= L the flattened text of the first part is the first
\* offset characters of the element when the boundary falls between nodes or
\* inside a text leaf that is a child of the element or of one of its child
\* elements; when an element nested two levels deep spans the boundary the
\* first part is shorter, ending where that element starts, and the element is
\* whole in the second part
C32_FirstPartText ==
  split.op = "done" =>
    LET el == split.originalElement
        offset == split.splitIndex
        original == TextContent(el)
        parts == split.parts[1]
        nested == NestedSpanning(el, offset)
    IN  /\ parts.text1 = TextOfNodes(parts.nodes1)
        /\ nested = {} => parts.text1 = SubSeq(original, 1, offset)
        /\ \A p \in nested :
             LET start == OffsetOf(el.children, p[1])
                            + OffsetOf(el.children[p[1]].children, p[2])
                 whole == el.children[p[1]].children[p[2]]
             IN  /\ start < offset
                 /\ parts.text1 = SubSeq(original, 1, start)
                 /\ parts.nodes2 # << >>
                 /\ ~IsText(parts.nodes2[1])
                 /\ parts.nodes2[1].children # << >>
                 /\ parts.nodes2[1].children[1] = whole

\* <span>a<em>cd</em></span> at offset 2: the boundary is inside the text leaf
\* of the child element
C32_Witness ==
  /\ split.op = "done"
  /\ split.originalElement.children
       = <<TextNode(<<"a">>), Element("em", <<"m1">>, {"class"}, <<TextNode(<<"c", "d">>)>>)>>
  /\ split.splitIndex = 2
  /\ TextOfNodes(split.parts[1].nodes1) = <<"a", "c">>
  /\ NestedSpanning(split.originalElement, split.splitIndex) = {}

\* ---------------------------------------------------------------------------
\* Fragments a region commit touches

\* the fragments, as <<overlay, id>>, whose clip times differ between two models
TimesChanged(before, after) ==
  {p \in UNION {{<<s, before.smilFiles[s].fragments[j].id>> :
                   j \in 1..Len(before.smilFiles[s].fragments)} :
                s \in 1..Len(before.smilFiles)} :
     LET G == after.smilFiles[p[1]].fragments
         F == before.smilFiles[p[1]].fragments
     IN  \/ FindIndex(G, p[2]) = 0
         \/ ById(G, p[2]).clipBegin # ById(F, p[2]).clipBegin
         \/ ById(G, p[2]).clipEnd # ById(F, p[2]).clipEnd}

\* C33: a region commit changes the clip times of at most three fragments: the
\* committed fragment of the displayed list, the one before it and the one
\* after it in that list; every other fragment of every overlay keeps its times
C33_CommitTouchesNeighboursOnly ==
  RegionCommitted =>
    LET c == ChapterIndex(last.pre.chapters, last.preChapter)
        s == OverlayIndex(last.pre.smilFiles, last.pre.chapters[c].mediaOverlay)
        F == CurrentFragments(last.pre, last.preChapter)
        i == FindIndex(F, last.id)
    IN  /\ Len(epubData.smilFiles) = Len(last.pre.smilFiles)
        /\ \A k \in 1..Len(epubData.smilFiles) :
             Len(epubData.smilFiles[k].fragments) = Len(last.pre.smilFiles[k].fragments)
        /\ TimesChanged(last.pre, epubData)
             \subseteq {<<s, F[j].id>> : j \in {i - 1, i, i + 1} \cap (1..Len(F))}

\* ---------------------------------------------------------------------------
\* Overlays an edit of the active chapter leaves alone

\* C34: update, delete, splitByTime and add, invoked with the id of a fragment
\* of the active chapter's overlay, change the fragment list of that overlay
\* only, also when overlays hold fragments with equal ids
C34_OtherOverlaysUnchanged ==
  (/\ last.op \in {"update", "delete", "splitByTime", "add"}
   /\ FindIndex(CurrentFragments(last.pre, last.preChapter), last.id) # 0) =>
    LET s == ActiveOverlay(last.pre, last.preChapter)
    IN  /\ Len(epubData.smilFiles) = Len(last.pre.smilFiles)
        /\ \A k \in 1..Len(last.pre.smilFiles) :
             k # s => epubData.smilFiles[k] = last.pre.smilFiles[k]

\* ---------------------------------------------------------------------------
\* Presence of the audio of the active chapter

\* the overlay of the chapter has a fragment whose audio reference the lookup
\* of the effect finds among the loaded audio files
HasLoadedAudio(data, chapterId) ==
  LET c == ChapterIndex(data.chapters, chapterId)
      F == CurrentFragments(data, chapterId)
  IN  /\ c # 0
      /\ \E i \in 1..Len(F) :
           FoundAudioFile(data, data.chapters[c].mediaOverlay, F[i].audioSrc) # None

\* C35: once the audio-selection effect has run, the current audio is present
\* whenever the selected chapter has an overlay with a fragment whose audio
\* reference resolves to a loaded audio file, also after a visit to a chapter
\* without audio
C35_AudioPresent ==
  (AudioFlushed /\ HasLoadedAudio(epubData, selectedChapter)) =>
    currentAudioBlob # None

\* ---------------------------------------------------------------------------
\* The selection after an edit

\* C36: after any edit operation the selected fragment is absent or has the
\* id, clipBegin and clipEnd of a fragment that is in the model
C36_SelectionInModel ==
  (last.op \in EditOps /\ selectedFragment # None) =>
    \E s \in 1..Len(epubData.smilFiles) :
      \E i \in 1..Len(epubData.smilFiles[s].fragments) :
        LET f == epubData.smilFiles[s].fragments[i]
        IN  /\ f.id = selectedFragment[1].id
            /\ f.clipBegin = selectedFragment[1].clipBegin
            /\ f.clipEnd = selectedFragment[1].clipEnd

\* ---------------------------------------------------------------------------
\* Fragment ids of an overlay

\* C37: the fragment ids of every overlay, pairwise distinct after parsing, stay
\* pairwise distinct after any sequence of add, splitByTime and splitByText
\* operations, however close in time
C37_FragmentIdsDistinct ==
  \A s \in 1..Len(epubData.smilFiles) : UniqueIds(epubData.smilFiles[s].fragments)

\* ---------------------------------------------------------------------------
\* Element ids of the markup after splitFragmentByText

\* no id occurs on two elements of the document
DistinctElementIds(doc) ==
  LET ids == IdsOfNodes(<<doc>>)
  IN  \A i, j \in 1..Len(ids) : ids[i] = ids[j] => i = j

\* C38: the element ids of a chapter's markup, pairwise distinct before a
\* splitByText, are pairwise distinct after it, also when a child element
\* with an id of its own spans the boundary and is divided into two copies
C38_ElementIdsDistinct ==
  SplitByTextDone =>
    LET t == SplitTarget(last.pre, last.preChapter, last.id)[1]
    IN  DistinctElementIds(t.doc) => DistinctElementIds(epubData.chapters[t.c].content)

\* ---------------------------------------------------------------------------
\* The archive of the model that is held

\* C39: under any interleaving of loadEPUB calls, failing ones included,
\* whenever a model is held and the editor shows it, the archive export writes
\* into is the archive that model was parsed from
C39_ArchiveOfModel ==
  (epubData # NoBook /\ error = None) =>
    /\ originalZip # None
    /\ parse(originalZip[1]).ok
    /\ parse(originalZip[1]).data = epubData

\* ---------------------------------------------------------------------------
\* Operations on a fragment that is not there

\* ids the views may still hold: of fragments of some book, of a fragment that
\* was split or deleted, of a region that belongs to no fragment
OnceIds == {<<"A">>, <<"B">>, <<"fragment-", "0">>, <<"fragment-", "1">>, <<"nowhere">>}

\* the ids among them that are in no overlay of the model
MissingIds(data) == {id \in OnceIds : FindOverlay(data.smilFiles, id) = 0}

\* the fragment's text reference names no element of the chapter's markup
Unresolved(data, chapterId, fragment) ==
  LET c == ChapterIndex(data.chapters, chapterId)
  IN  \/ c = 0
      \/ fragment.textSrc.frag = NoId
      \/ fragment.textSrc.frag \notin AllIds(data.chapters[c].content)

\* FragmentEditor: a split by time of a fragment that is shown
SplitShown == SplitFragmentIn(SplitTimes, MaxMissingOps)

\* onFragmentAdd with the defaults, or with a text reference to an element the
\* markup does not have
AddDetached ==
  AddFragmentIn({<< >>, [textSrc |-> [href |-> "c1.xhtml", frag |-> <<"nowhere">>]]},
                MaxMissingOps)

UpdateMissing ==
  \E id \in MissingIds(epubData), updates \in PartialFragments :
    /\ Edit(Did("update", id, 0, 0, updates),
            updateFragment(epubData, selectedFragment, id, updates), MaxMissingOps)
    /\ NoDragChange

DeleteMissing ==
  \E id \in MissingIds(epubData) :
    /\ Edit(Did("delete", id, 0, 0, << >>),
            deleteFragment(epubData, selectedFragment, id), MaxMissingOps)
    /\ NoDragChange

SplitMissing ==
  \E id \in MissingIds(epubData), splitTime \in SplitTimes :
    /\ Edit(Did("splitByTime", id, splitTime, 0, << >>),
            [data |-> splitFragment(epubData, id, splitTime), sel |-> selectedFragment],
            MaxMissingOps)
    /\ NoDragChange

AddMissing ==
  \E afterId \in MissingIds(epubData) :
    /\ Edit(Did("add", afterId, 0, 0, << >>),
            [data |-> addFragment(epubData, afterId, << >>, now), sel |-> selectedFragment],
            MaxMissingOps)
    /\ NoDragChange

SplitByTextMissing ==
  \E id \in MissingIds(epubData), splitIndex \in 0..1 :
    /\ Edit(Did("splitByText", id, splitIndex, 0, << >>),
            splitFragmentByText(epubData, selectedFragment, selectedChapter, id,
                                splitIndex, now),
            MaxMissingOps)
    /\ NoDragChange

\* splitFragmentByText of a shown fragment whose text reference finds nothing
SplitByTextUnresolved ==
  \E i \in 1..Len(CurrentFragments(epubData, selectedChapter)), splitIndex \in 0..1 :
    LET fragment == CurrentFragments(epubData, selectedChapter)[i]
    IN  /\ Unresolved(epubData, selectedChapter, fragment)
        /\ Edit(Did("splitByText", fragment.id, splitIndex, 0, << >>),
                splitFragmentByText(epubData, selectedFragment, selectedChapter,
                                    fragment.id, splitIndex, now),
                MaxMissingOps)
        /\ NoDragChange

NextMissing ==
  \/ SplitShown
  \/ AddDetached
  \/ UpdateMissing
  \/ DeleteMissing
  \/ SplitMissing
  \/ AddMissing
  \/ SplitByTextMissing
  \/ SplitByTextUnresolved

SpecMissing == Init /\ [][NextMissing]_vars

\* the last operation was given an id that no overlay holds, or was a split by
\* text of a fragment of the shown list whose text reference finds nothing
OnMissing ==
  /\ last.op \in {"update", "delete", "splitByTime", "add", "splitByText"}
  /\ \/ FindOverlay(last.pre.smilFiles, last.id) = 0
     \/ /\ last.op = "splitByText"
        /\ LET F == CurrentFragments(last.pre, last.preChapter)
           IN  /\ FindIndex(F, last.id) # 0
               /\ Unresolved(last.pre, last.preChapter, ById(F, last.id))

\* C40: update, delete, splitByTime, add and splitByText with a fragment id that
\* is in no overlay, and splitByText of a fragment whose text reference does
\* not resolve in the chapter's markup, leave every fragment list and every
\* chapter's markup as they were and set no error
C40_MissingIsNoOp ==
  OnMissing =>
    /\ epubData.smilFiles = last.pre.smilFiles
    /\ epubData.chapters = last.pre.chapters
    /\ error = None

\* an update with new times for the id of a fragment that was split before,
\* and a split by text of an added fragment without text reference
C40_Witness ==
  /\ OnMissing
  /\ nOps >= 2
  /\ \/ /\ last.op = "update"
        /\ IsTimingUpdate(last.updates)
        /\ last.id \in {<<"A">>, <<"B">>}
        /\ FindOverlay(last.pre.smilFiles, Append(last.id, "part1")) # 0
     \/ /\ last.op = "splitByText"
        /\ FindIndex(CurrentFragments(last.pre, last.preChapter), last.id) # 0

=============================================================================
